---- MODULE Spec2Model ----
(***************************************************************************)
(* A model of the crossword decoders of the rebus repository:              *)
(*   crates/crossword-parser/src/puz.rs   the binary (.puz) decoder        *)
(*   crates/xword-parser/src/ipuz.rs      the JSON (.ipuz) decoder         *)
(*   crates/xword-parser/src/jpz.rs       the Archive/XML (.jpz) decoder   *)
(* One decode call is one run: Init holds the input, the actions are the   *)
(* stages of the decoder, and result holds what the call returns.          *)
(*                                                                         *)
(* Conventions.  Option<T>: None is <<>>, Some(x) is <<x>>.  A byte buffer *)
(* is a sequence of 0..255, addressed with the code's 0-based offsets      *)
(* through At and Slice.  Text, decoded from bytes or given in a JSON or   *)
(* XML input, is a sequence of Unicode code points; the names of XML       *)
(* elements and attributes and the keys of JSON objects are strings.       *)
(***************************************************************************)
EXTENDS Integers, Sequences, FiniteSets, TLC

VARIABLES call, fmt, input, pc, puz, ipuz, jpz, result

vars == <<call, fmt, input, pc, puz, ipuz, jpz, result>>

----------------------------------------------------------------------------
(* Option, Result and slices *)

None == <<>>

Some(x) == <<x>>

IsSome(o) == o # <<>>

Unwrap(o) == o[1]

Ok(v) == [kind |-> "Ok", value |-> v]

Err(e) == [kind |-> "Err", error |-> e]

Panic(where) == [kind |-> "Panic", at |-> where]

NoResult == [kind |-> "none"]

\* data[i] with the code's 0-based index
At(data, i) == data[i + 1]

\* data[from..to] with the code's 0-based half-open range
Slice(data, from, to) == SubSeq(data, from + 1, to)

Min(a, b) == IF a < b THEN a ELSE b

Max(a, b) == IF a > b THEN a ELSE b

\* the sequence of n copies of x
Repeat(x, n) == [i \in 1..n |-> x]

RECURSIVE Concat(_)
\* the concatenation of a sequence of sequences
Concat(ss) == IF ss = <<>> THEN <<>> ELSE Head(ss) \o Concat(Tail(ss))

----------------------------------------------------------------------------
(* ParseError, error.rs *)

InvalidMagic == [variant |-> "InvalidMagic"]

FileTooShort(expected, actual) ==
    [variant |-> "FileTooShort", expected |-> expected, actual |-> actual]

InvalidDimensions(width, height) ==
    [variant |-> "InvalidDimensions", width |-> width, height |-> height]

UnsupportedFormat(ext) == [variant |-> "UnsupportedFormat", ext |-> ext]

InvalidData(msg) == [variant |-> "InvalidData", msg |-> msg]

JsonError == [variant |-> "Json"]

XmlError(msg) == [variant |-> "Xml", msg |-> msg]

----------------------------------------------------------------------------
(* types.rs *)

BlackCell ==
    [kind |-> "Black", number |-> None, solution |-> None,
     rebus_solution |-> None, player_value |-> None,
     is_circled |-> FALSE, was_incorrect |-> FALSE, is_revealed |-> FALSE]

LetterCell(number, solution, rebus_solution, player_value, is_circled, was_incorrect, is_revealed) ==
    [kind |-> "Letter", number |-> number, solution |-> solution,
     rebus_solution |-> rebus_solution, player_value |-> player_value,
     is_circled |-> is_circled, was_incorrect |-> was_incorrect,
     is_revealed |-> is_revealed]

Clue(number, text, row, col, length) ==
    [number |-> number, text |-> text, row |-> row, col |-> col,
     length |-> length]

----------------------------------------------------------------------------
(* The binary decoder, puz.rs: constants *)

\* b"ACROSS&DOWN\0"
MAGIC == <<65, 67, 82, 79, 83, 83, 38, 68, 79, 87, 78, 0>>

OFFSET_MAGIC == 2

OFFSET_WIDTH == 44

OFFSET_HEIGHT == 45

OFFSET_NUM_CLUES == 46

OFFSET_SCRAMBLED_TAG == 50

HEADER_SIZE == 52

EXT_GRBS == <<71, 82, 66, 83>>

EXT_RTBL == <<82, 84, 66, 76>>

EXT_GEXT == <<71, 69, 88, 84>>

EXT_LTIM == <<76, 84, 73, 77>>

GEXT_CIRCLED == 128

GEXT_WAS_INCORRECT == 16

GEXT_REVEALED == 64

\* b'.', the black-cell marker
B_DOT == 46

\* b'-', the "no answer" marker
B_DASH == 45

\* b':', the second "no answer" marker of the solution grid
B_COLON == 58

\* cursor.read_u16::<LittleEndian>() on data[off..]
read_u16_le(data, off) == At(data, off) + 256 * At(data, off + 1)

\* gext_byte & flag != 0, for a flag that is a single bit
BitSet(byte, flag) == (byte \div flag) % 2 = 1

----------------------------------------------------------------------------
(* decode_string: UTF-8 first, Windows-1252 on failure.  The fallback is   *)
(* modelled for byte strings that do not start with a byte-order mark      *)
(* (FF FE, FE FF, EF BB BF), which the inputs below never do.              *)

\* a UTF-8 continuation byte; -1 stands for "past the end"
IsCont(b) == b >= 128 /\ b <= 191

\* bytes[i] (1-based) or -1 past the end
ByteOr(bytes, i) == IF i <= Len(bytes) THEN bytes[i] ELSE -1

RECURSIVE utf8_decode(_, _, _)
\* std::str::from_utf8: Some(code points) for well-formed UTF-8, else None
utf8_decode(bytes, i, acc) ==
    IF i > Len(bytes) THEN Some(acc)
    ELSE LET b0 == bytes[i]
             b1 == ByteOr(bytes, i + 1)
             b2 == ByteOr(bytes, i + 2)
             b3 == ByteOr(bytes, i + 3)
             lo3 == IF b0 = 224 THEN 160 ELSE 128
             hi3 == IF b0 = 237 THEN 159 ELSE 191
             lo4 == IF b0 = 240 THEN 144 ELSE 128
             hi4 == IF b0 = 244 THEN 143 ELSE 191
         IN  IF b0 < 128 THEN utf8_decode(bytes, i + 1, Append(acc, b0))
             ELSE IF b0 >= 194 /\ b0 <= 223 /\ IsCont(b1)
             THEN utf8_decode(bytes, i + 2,
                              Append(acc, (b0 - 192) * 64 + (b1 - 128)))
             ELSE IF b0 >= 224 /\ b0 <= 239 /\ b1 >= lo3 /\ b1 <= hi3 /\ IsCont(b2)
             THEN utf8_decode(bytes, i + 3,
                              Append(acc, (b0 - 224) * 4096 + (b1 - 128) * 64
                                          + (b2 - 128)))
             ELSE IF b0 >= 240 /\ b0 <= 244 /\ b1 >= lo4 /\ b1 <= hi4
                     /\ IsCont(b2) /\ IsCont(b3)
             THEN utf8_decode(bytes, i + 4,
                              Append(acc, (b0 - 240) * 262144 + (b1 - 128) * 4096
                                          + (b2 - 128) * 64 + (b3 - 128)))
             ELSE None

\* the code points of bytes 0x80..0x9F in Windows-1252
W1252_HIGH ==
    <<8364, 129, 8218, 402, 8222, 8230, 8224, 8225, 710, 8240, 352, 8249,
      338, 141, 381, 143, 144, 8216, 8217, 8220, 8221, 8226, 8211, 8212,
      732, 8482, 353, 8250, 339, 157, 382, 376>>

\* encoding_rs::WINDOWS_1252.decode of one byte
w1252_char(b) == IF b >= 128 /\ b <= 159 THEN W1252_HIGH[b - 127] ELSE b

decode_string(bytes) ==
    LET u == utf8_decode(bytes, 1, <<>>)
    IN  IF IsSome(u) THEN Unwrap(u)
        ELSE [i \in 1..Len(bytes) |-> w1252_char(bytes[i])]

\* (b as char).to_uppercase().to_string() for a byte b (a Latin-1 code point)
byte_to_uppercase(b) ==
    IF b >= 97 /\ b <= 122 THEN <<b - 32>>
    ELSE IF b = 181 THEN <<924>>
    ELSE IF b = 223 THEN <<83, 83>>
    ELSE IF b = 255 THEN <<376>>
    ELSE IF b >= 224 /\ b <= 254 /\ b # 247 THEN <<b - 32>>
    ELSE <<b>>

----------------------------------------------------------------------------
(* The string table *)

RECURSIVE position_nul(_, _, _)
\* data[pos..].iter().position(|&b| b == 0): the offset from pos, or -1
position_nul(data, pos, off) ==
    IF pos + off >= Len(data) THEN -1
    ELSE IF At(data, pos + off) = 0 THEN off
    ELSE position_nul(data, pos, off + 1)

RECURSIVE parse_strings_loop(_, _, _, _)
\* the for loop of parse_strings, `left` iterations to go
parse_strings_loop(data, pos, left, strings) ==
    IF left = 0 THEN strings
    ELSE LET end == position_nul(data, pos, 0)
         IN  IF end >= 0
             THEN parse_strings_loop(data, pos + end + 1, left - 1,
                      Append(strings, decode_string(Slice(data, pos, pos + end))))
             ELSE IF pos < Len(data)
             THEN Append(strings, decode_string(Slice(data, pos, Len(data))))
             ELSE parse_strings_loop(data, pos, left - 1, Append(strings, <<>>))

parse_strings(data, expected_count) ==
    parse_strings_loop(data, 0, expected_count, <<>>)

RECURSIVE find_extensions_loop(_, _, _)
find_extensions_loop(data, pos, left) ==
    IF left = 0 THEN (IF pos < Len(data) THEN Some(pos) ELSE None)
    ELSE LET end == position_nul(data, pos, 0)
         IN  IF end >= 0 THEN find_extensions_loop(data, pos + end + 1, left - 1)
             ELSE None

find_extensions_start(data, string_count) ==
    find_extensions_loop(data, 0, string_count)

----------------------------------------------------------------------------
(* Text helpers over sequences of code points *)

\* char::is_whitespace (the Unicode White_Space property), used by str::trim
IsWhitespace(c) ==
    \/ c \in 9..13
    \/ c \in {32, 133, 160, 5760, 8232, 8233, 8239, 8287, 12288}
    \/ c \in 8192..8202

RECURSIVE TrimStart(_)
TrimStart(s) ==
    IF s # <<>> /\ IsWhitespace(Head(s)) THEN TrimStart(Tail(s)) ELSE s

RECURSIVE TrimEnd(_)
TrimEnd(s) ==
    IF s # <<>> /\ IsWhitespace(s[Len(s)])
    THEN TrimEnd(SubSeq(s, 1, Len(s) - 1)) ELSE s

\* str::trim
Trim(s) == TrimEnd(TrimStart(s))

RECURSIVE IndexOf(_, _, _)
\* the first 1-based index >= i of c in s, or 0
IndexOf(s, c, i) ==
    IF i > Len(s) THEN 0 ELSE IF s[i] = c THEN i ELSE IndexOf(s, c, i + 1)

RECURSIVE Split(_, _)
\* str::split(c): the pieces between the occurrences of c (at least one piece)
Split(s, c) ==
    LET k == IndexOf(s, c, 1)
    IN  IF k = 0 THEN <<s>>
        ELSE <<SubSeq(s, 1, k - 1)>> \o Split(SubSeq(s, k + 1, Len(s)), c)

RECURSIVE parse_digits(_, _, _, _)
\* the decimal value of the digits s[i..], None on a non-digit or above max
parse_digits(s, i, acc, max) ==
    IF i > Len(s) THEN Some(acc)
    ELSE IF s[i] \notin 48..57 THEN None
    ELSE LET v == acc * 10 + (s[i] - 48)
         IN  IF v > max THEN None ELSE parse_digits(s, i + 1, v, max)

\* str::parse::<uN>() for an unsigned type with maximum max: an optional '+',
\* then one or more ASCII digits, the value at most max
parse_unsigned(s, max) ==
    LET digits == IF s # <<>> /\ s[1] = 43 THEN Tail(s) ELSE s
    IN  IF digits = <<>> THEN None ELSE parse_digits(digits, 1, 0, max)

U8_MAX == 255

----------------------------------------------------------------------------
(* Extension sections *)

EmptyMap == [k \in {} |-> <<>>]

\* HashMap::get
MapGet(m, k) == IF k \in DOMAIN m THEN Some(m[k]) ELSE None

\* an insert that keeps the value a key already has
MapInsert_keep_first(m, k, v) ==
    [x \in (DOMAIN m) \cup {k} |-> IF x \in DOMAIN m THEN m[x] ELSE v]

\* HashMap::insert: a later insert of the same key replaces the value
MapInsert(m, k, v) == [x \in (DOMAIN m) \cup {k} |-> IF x = k THEN v ELSE m[x]]

DefaultExtensions ==
    [grbs |-> <<>>, rtbl |-> EmptyMap, gext |-> <<>>, ltim |-> None]

RECURSIVE parse_rtbl_entries(_, _, _)
\* the for loop of parse_rtbl over s.split(';')
parse_rtbl_entries(entries, i, map) ==
    IF i > Len(entries) THEN map
    ELSE LET entry == Trim(entries[i])
             colon == IndexOf(entry, B_COLON, 1)
             key == parse_unsigned(Trim(SubSeq(entry, 1, colon - 1)), U8_MAX)
             value == SubSeq(entry, colon + 1, Len(entry))
         IN  IF entry = <<>> \/ colon = 0 \/ ~IsSome(key)
             THEN parse_rtbl_entries(entries, i + 1, map)
             ELSE parse_rtbl_entries(entries, i + 1,
                                     MapInsert(map, Unwrap(key), value))

\* b';'
B_SEMICOLON == 59

parse_rtbl(data) ==
    parse_rtbl_entries(Split(decode_string(data), B_SEMICOLON), 1, EmptyMap)

\* one turn of the while loop that leaves the walk at the first unknown name
parse_extensions_step_known_only(data, pos, ext) ==
    IF pos + 8 > Len(data) THEN [break |-> TRUE, pos |-> pos, ext |-> ext]
    ELSE LET name == Slice(data, pos, pos + 4)
             length == read_u16_le(data, pos + 4)
             section_data_start == pos + 8
             section_data_end == section_data_start + length
             section_data == Slice(data, section_data_start, section_data_end)
         IN  IF section_data_end > Len(data)
                \/ name \notin {EXT_GRBS, EXT_RTBL, EXT_GEXT, EXT_LTIM}
             THEN [break |-> TRUE, pos |-> pos, ext |-> ext]
             ELSE [break |-> FALSE, pos |-> section_data_end + 1,
                   ext |-> IF name = EXT_GRBS THEN [ext EXCEPT !.grbs = section_data]
                           ELSE IF name = EXT_RTBL
                           THEN [ext EXCEPT !.rtbl = parse_rtbl(section_data)]
                           ELSE IF name = EXT_GEXT THEN [ext EXCEPT !.gext = section_data]
                           ELSE [ext EXCEPT !.ltim = Some(decode_string(section_data))]]

\* one turn of the while loop of parse_extensions, lines 215-246: whether it
\* leaves the loop, and otherwise the next pos and the extensions so far
parse_extensions_step(data, pos, ext) ==
    IF pos + 8 > Len(data) THEN [break |-> TRUE, pos |-> pos, ext |-> ext]
    ELSE LET name == Slice(data, pos, pos + 4)
             length == read_u16_le(data, pos + 4)
             section_data_start == pos + 8
             section_data_end == section_data_start + length
             section_data == Slice(data, section_data_start, section_data_end)
         IN  IF section_data_end > Len(data)
             THEN [break |-> TRUE, pos |-> pos, ext |-> ext]
             ELSE [break |-> FALSE, pos |-> section_data_end + 1,
                   ext |-> IF name = EXT_GRBS THEN [ext EXCEPT !.grbs = section_data]
                           ELSE IF name = EXT_RTBL
                           THEN [ext EXCEPT !.rtbl = parse_rtbl(section_data)]
                           ELSE IF name = EXT_GEXT THEN [ext EXCEPT !.gext = section_data]
                           ELSE IF name = EXT_LTIM
                           THEN [ext EXCEPT !.ltim = Some(decode_string(section_data))]
                           ELSE ext]

RECURSIVE parse_extensions_loop(_, _, _)
\* the while loop of parse_extensions
parse_extensions_loop(data, pos, ext) ==
    LET step == parse_extensions_step(data, pos, ext)
    IN  IF step.break THEN ext
        ELSE parse_extensions_loop(data, step.pos, step.ext)

parse_extensions(data) == parse_extensions_loop(data, 0, DefaultExtensions)

----------------------------------------------------------------------------
(* Grid topology over the solution bytes *)

is_across_start(grid, w, h, row, col) ==
    LET idx == row * w + col
    IN  /\ At(grid, idx) # B_DOT
        /\ (col = 0 \/ At(grid, idx - 1) = B_DOT)
        /\ (col + 1 < w /\ At(grid, idx + 1) # B_DOT)

\* is_down_start without the test that a letter lies below
is_down_start_no_below(grid, w, h, row, col) ==
    LET idx == row * w + col
    IN  /\ At(grid, idx) # B_DOT
        /\ (row = 0 \/ At(grid, (row - 1) * w + col) = B_DOT)

is_down_start(grid, w, h, row, col) ==
    LET idx == row * w + col
    IN  /\ At(grid, idx) # B_DOT
        /\ (row = 0 \/ At(grid, (row - 1) * w + col) = B_DOT)
        /\ (row + 1 < h /\ At(grid, (row + 1) * w + col) # B_DOT)

RECURSIVE word_length_across(_, _, _, _)
word_length_across(grid, w, row, col) ==
    IF col < w /\ At(grid, row * w + col) # B_DOT
    THEN 1 + word_length_across(grid, w, row, col + 1)
    ELSE 0

RECURSIVE word_length_down(_, _, _, _, _)
word_length_down(grid, w, h, row, col) ==
    IF row < h /\ At(grid, row * w + col) # B_DOT
    THEN 1 + word_length_down(grid, w, h, row + 1, col)
    ELSE 0

----------------------------------------------------------------------------
(* build_grid *)

\* clue_texts.get(clue_idx).cloned().unwrap_or_default()
clue_text_at(clue_texts, clue_idx) ==
    IF clue_idx < Len(clue_texts) THEN clue_texts[clue_idx + 1] ELSE <<>>

\* assign_number with the down clue taking its text slot before the across clue
assign_number_down_first(a, row, col, acc) ==
    LET starts_across == is_across_start(a.solution_grid, a.w, a.h, row, col)
        starts_down == is_down_start(a.solution_grid, a.w, a.h, row, col)
        n == acc.clue_number
        with_down ==
            IF starts_down
            THEN [acc EXCEPT
                    !.down = Append(@, Clue(n, clue_text_at(a.clue_texts, acc.clue_idx),
                               row, col,
                               word_length_down(a.solution_grid, a.w, a.h, row, col))),
                    !.clue_idx = @ + 1]
            ELSE acc
        with_across ==
            IF starts_across
            THEN [with_down EXCEPT
                    !.across = Append(@, Clue(n, clue_text_at(a.clue_texts, with_down.clue_idx),
                                 row, col,
                                 word_length_across(a.solution_grid, a.w, row, col))),
                    !.clue_idx = @ + 1]
            ELSE with_down
    IN  IF starts_across \/ starts_down
        THEN [acc |-> [with_across EXCEPT !.clue_number = n + 1], number |-> Some(n)]
        ELSE [acc |-> acc, number |-> None]

\* The numbering of one non-black cell: acc carries clue_number, clue_idx and
\* the two clue lists; the across clue takes its text slot before the down clue.
assign_number(a, row, col, acc) ==
    LET starts_across == is_across_start(a.solution_grid, a.w, a.h, row, col)
        starts_down == is_down_start(a.solution_grid, a.w, a.h, row, col)
        n == acc.clue_number
        with_across ==
            IF starts_across
            THEN [acc EXCEPT
                    !.across = Append(@, Clue(n, clue_text_at(a.clue_texts, acc.clue_idx),
                                 row, col,
                                 word_length_across(a.solution_grid, a.w, row, col))),
                    !.clue_idx = @ + 1]
            ELSE acc
        with_down ==
            IF starts_down
            THEN [with_across EXCEPT
                    !.down = Append(@, Clue(n, clue_text_at(a.clue_texts, with_across.clue_idx),
                               row, col,
                               word_length_down(a.solution_grid, a.w, a.h, row, col))),
                    !.clue_idx = @ + 1]
            ELSE with_across
    IN  IF starts_across \/ starts_down
        THEN [acc |-> [with_down EXCEPT !.clue_number = n + 1], number |-> Some(n)]
        ELSE [acc |-> acc, number |-> None]

\* black_cell keeping the circle bit of the GEXT byte of the cell
black_cell_circled(a, idx) ==
    [BlackCell EXCEPT !.is_circled =
        idx < Len(a.extensions.gext)
        /\ BitSet(At(a.extensions.gext, idx), GEXT_CIRCLED)]

\* the cell pushed for a black solution byte
black_cell(a, idx) == BlackCell

\* the Letter cell of flat index idx, given its number
letter_cell(a, idx, cell_number) ==
    LET sol_byte == At(a.solution_grid, idx)
        state_byte == At(a.state_grid, idx)
        grbs == a.extensions.grbs
        gext == a.extensions.gext
        solution ==
            IF sol_byte # B_DASH /\ sol_byte # B_COLON
            THEN Some(byte_to_uppercase(sol_byte)) ELSE None
        rebus_solution ==
            IF grbs # <<>> /\ idx < Len(grbs)
            THEN (IF At(grbs, idx) > 0
                  THEN MapGet(a.extensions.rtbl, At(grbs, idx) - 1) ELSE None)
            ELSE None
        player_value ==
            IF state_byte # B_DASH /\ state_byte # B_DOT /\ state_byte # 0
            THEN Some(byte_to_uppercase(state_byte)) ELSE None
        gext_byte == IF idx < Len(gext) THEN At(gext, idx) ELSE 0
    IN  LetterCell(cell_number, solution, rebus_solution, player_value,
                   BitSet(gext_byte, GEXT_CIRCLED),
                   BitSet(gext_byte, GEXT_WAS_INCORRECT),
                   BitSet(gext_byte, GEXT_REVEALED))

RECURSIVE build_grid_loop(_, _, _)
\* the two nested for loops of build_grid, from flat index idx on
build_grid_loop(a, idx, acc) ==
    IF idx >= a.w * a.h THEN acc
    ELSE IF At(a.solution_grid, idx) = B_DOT
    THEN build_grid_loop(a, idx + 1,
                         [acc EXCEPT !.cells = Append(@, black_cell(a, idx))])
    ELSE LET numbered == assign_number(a, idx \div a.w, idx % a.w, acc)
         IN  build_grid_loop(a, idx + 1,
                 [numbered.acc EXCEPT
                    !.cells = Append(@, letter_cell(a, idx, numbered.number))])

build_grid(width, height, solution_grid, state_grid, clue_texts, extensions) ==
    LET a == [w |-> width, h |-> height, solution_grid |-> solution_grid,
              state_grid |-> state_grid, clue_texts |-> clue_texts,
              extensions |-> extensions]
        acc == build_grid_loop(a, 0,
                   [cells |-> <<>>, across |-> <<>>, down |-> <<>>,
                    clue_number |-> 1, clue_idx |-> 0])
    IN  [grid |-> [r \in 1..height |->
                     [c \in 1..width |-> acc.cells[(r - 1) * width + c]]],
         across |-> acc.across, down |-> acc.down]

----------------------------------------------------------------------------
(* puz::parse, in its stages *)

\* puz_header with the dimension check moved before the signature check
puz_header_dims_first(data) ==
    IF Len(data) < HEADER_SIZE
    THEN Err(FileTooShort(HEADER_SIZE, Len(data)))
    ELSE LET width == At(data, OFFSET_WIDTH)
             height == At(data, OFFSET_HEIGHT)
             grid_size == width * height
             solution_end == HEADER_SIZE + grid_size
             state_end == solution_end + grid_size
         IN  IF width = 0 \/ height = 0
             THEN Err(InvalidDimensions(width, height))
             ELSE IF Slice(data, OFFSET_MAGIC, OFFSET_MAGIC + 12) # MAGIC
             THEN Err(InvalidMagic)
             ELSE IF Len(data) < state_end
             THEN Err(FileTooShort(state_end, Len(data)))
             ELSE Ok([width |-> width, height |-> height,
                      num_clues |-> read_u16_le(data, OFFSET_NUM_CLUES),
                      is_scrambled |-> read_u16_le(data, OFFSET_SCRAMBLED_TAG) # 0,
                      state_end |-> state_end,
                      solution_grid |-> Slice(data, HEADER_SIZE, solution_end),
                      state_grid |-> Slice(data, solution_end, state_end)])

\* puz_header reporting the header size as the expected length of both
\* length failures
puz_header_expected_header(data) ==
    IF Len(data) < HEADER_SIZE
    THEN Err(FileTooShort(HEADER_SIZE, Len(data)))
    ELSE IF Slice(data, OFFSET_MAGIC, OFFSET_MAGIC + 12) # MAGIC
    THEN Err(InvalidMagic)
    ELSE LET width == At(data, OFFSET_WIDTH)
             height == At(data, OFFSET_HEIGHT)
             grid_size == width * height
             solution_end == HEADER_SIZE + grid_size
             state_end == solution_end + grid_size
         IN  IF width = 0 \/ height = 0
             THEN Err(InvalidDimensions(width, height))
             ELSE IF Len(data) < state_end
             THEN Err(FileTooShort(HEADER_SIZE, Len(data)))
             ELSE Ok([width |-> width, height |-> height,
                      num_clues |-> read_u16_le(data, OFFSET_NUM_CLUES),
                      is_scrambled |-> read_u16_le(data, OFFSET_SCRAMBLED_TAG) # 0,
                      state_end |-> state_end,
                      solution_grid |-> Slice(data, HEADER_SIZE, solution_end),
                      state_grid |-> Slice(data, solution_end, state_end)])

\* The header checks, in the code's order, and the header fields.
puz_header(data) ==
    IF Len(data) < HEADER_SIZE
    THEN Err(FileTooShort(HEADER_SIZE, Len(data)))
    ELSE IF Slice(data, OFFSET_MAGIC, OFFSET_MAGIC + 12) # MAGIC
    THEN Err(InvalidMagic)
    ELSE LET width == At(data, OFFSET_WIDTH)
             height == At(data, OFFSET_HEIGHT)
             grid_size == width * height
             solution_end == HEADER_SIZE + grid_size
             state_end == solution_end + grid_size
         IN  IF width = 0 \/ height = 0
             THEN Err(InvalidDimensions(width, height))
             ELSE IF Len(data) < state_end
             THEN Err(FileTooShort(state_end, Len(data)))
             ELSE Ok([width |-> width, height |-> height,
                      num_clues |-> read_u16_le(data, OFFSET_NUM_CLUES),
                      is_scrambled |-> read_u16_le(data, OFFSET_SCRAMBLED_TAG) # 0,
                      state_end |-> state_end,
                      solution_grid |-> Slice(data, HEADER_SIZE, solution_end),
                      state_grid |-> Slice(data, solution_end, state_end)])

\* strings.get(i).cloned().unwrap_or_default()
string_or_default(strings, i) ==
    IF i < Len(strings) THEN strings[i + 1] ELSE <<>>

\* The string table: parse_strings, then the title, author, copyright, the
\* clue slice strings[3..3 + num_clues] and the notes.  Slicing past the end
\* of the vector aborts the call.
puz_strings(data, hd) ==
    LET strings == parse_strings(Slice(data, hd.state_end, Len(data)),
                                 hd.num_clues + 4)
    IN  IF 3 + hd.num_clues > Len(strings)
        THEN Panic("strings[3..3 + num_clues]")
        ELSE Ok([title |-> string_or_default(strings, 0),
                 author |-> string_or_default(strings, 1),
                 copyright |-> string_or_default(strings, 2),
                 clue_texts |-> SubSeq(strings, 4, 3 + hd.num_clues),
                 notes |-> string_or_default(strings, 3 + hd.num_clues)])

\* The extension sections, when the string table is complete and bytes follow.
puz_extensions(data, hd) ==
    LET rest == Slice(data, hd.state_end, Len(data))
        extensions_start == find_extensions_start(rest, hd.num_clues + 4)
    IN  IF IsSome(extensions_start)
        THEN parse_extensions(Slice(rest, Unwrap(extensions_start), Len(rest)))
        ELSE DefaultExtensions

\* Puzzle construction that reports a solution whatever the scramble tag
puz_puzzle_always_solved(hd, st, extensions) ==
    LET built == build_grid(hd.width, hd.height, hd.solution_grid,
                            hd.state_grid, st.clue_texts, extensions)
    IN  [title |-> st.title, author |-> st.author, copyright |-> st.copyright,
         notes |-> st.notes, width |-> hd.width, height |-> hd.height,
         grid |-> built.grid,
         clues |-> [across |-> built.across, down |-> built.down],
         has_solution |-> TRUE, is_scrambled |-> hd.is_scrambled]

\* The Puzzle returned at the end of parse.
puz_puzzle(hd, st, extensions) ==
    LET built == build_grid(hd.width, hd.height, hd.solution_grid,
                            hd.state_grid, st.clue_texts, extensions)
    IN  [title |-> st.title, author |-> st.author, copyright |-> st.copyright,
         notes |-> st.notes, width |-> hd.width, height |-> hd.height,
         grid |-> built.grid,
         clues |-> [across |-> built.across, down |-> built.down],
         has_solution |-> ~hd.is_scrambled, is_scrambled |-> hd.is_scrambled]

\* puz::parse as a function of the buffer
puz_parse(data) ==
    LET hd == puz_header(data)
        st == puz_strings(data, hd.value)
    IN  IF hd.kind # "Ok" THEN hd
        ELSE IF st.kind # "Ok" THEN st
        ELSE Ok(puz_puzzle(hd.value, st.value, puz_extensions(data, hd.value)))

----------------------------------------------------------------------------
(* Binary inputs.  Buffers are built the way the decoder's own test builds   *)
(* its fixture (make_test_puz): a header, the two grids, the string table,  *)
(* then whatever follows.                                                   *)

\* the largest width and height of the enumerated grids
MaxDim == 3

\* the largest number of cells of the enumerated grids
MaxCells == 9

\* the longest arbitrary byte string enumerated after the two grids
MaxTail == 5

\* the 0x34 header bytes with the given fields, every other byte zero
mk_header(magic, width, height, num_clues, tag) ==
    [i \in 1..HEADER_SIZE |->
        LET off == i - 1
        IN  IF off >= OFFSET_MAGIC /\ off < OFFSET_MAGIC + 12
            THEN magic[off - OFFSET_MAGIC + 1]
            ELSE IF off = OFFSET_WIDTH THEN width
            ELSE IF off = OFFSET_HEIGHT THEN height
            ELSE IF off = OFFSET_NUM_CLUES THEN num_clues % 256
            ELSE IF off = OFFSET_NUM_CLUES + 1 THEN num_clues \div 256
            ELSE IF off = OFFSET_SCRAMBLED_TAG THEN tag % 256
            ELSE IF off = OFFSET_SCRAMBLED_TAG + 1 THEN tag \div 256
            ELSE 0]

\* the fixture of the decoder's tests: CAT / .O. / DOG with three clues
TestPuz ==
    mk_header(MAGIC, 3, 3, 3, 0)
    \o <<67, 65, 84, 46, 79, 46, 68, 79, 71>>
    \o Repeat(B_DASH, 9)
    \o <<
        84, 101, 115, 116, 32, 80, 117, 122, 122, 108, 101, 0, 84, 101, 115, 116,
        32, 65, 117, 116, 104, 111, 114, 0, 50, 48, 50, 52, 0, 70, 101, 108,
        105, 110, 101, 32, 102, 114, 105, 101, 110, 100, 0, 76, 101, 116, 116, 101,
        114, 32, 98, 101, 116, 119, 101, 101, 110, 32, 78, 32, 97, 110, 100, 32,
        80, 0, 67, 97, 110, 105, 110, 101, 32, 102, 114, 105, 101, 110, 100, 0,
        0
       >>

\* a well-formed string table for n clues: title, author, copyright, the
\* clue texts "a", "b", ..., and the notes, each NUL-terminated
string_table(n) ==
    <<84, 0, 85, 0, 67, 0>>
    \o Concat([k \in 1..n |-> <<96 + k, 0>>])
    \o <<78, 0>>

\* the solution bytes of a black/white pattern: '.' for black, a letter else
mask_bytes(mask) ==
    [i \in 1..Len(mask) |-> IF mask[i] THEN B_DOT ELSE 65 + (i % 26)]

\* the number of clues of a pattern, as the file's writer counts them
count_clues(w, h, grid) ==
    Cardinality({i \in 0..(w * h - 1) : is_across_start(grid, w, h, i \div w, i % w)})
    + Cardinality({i \in 0..(w * h - 1) : is_down_start(grid, w, h, i \div w, i % w)})

\* the grid dimensions enumerated
Dims == {d \in (1..MaxDim) \X (1..MaxDim) : d[1] * d[2] <= MaxCells}

\* every black/white pattern of every enumerated size, with the right number
\* of clue strings, with none, and with two
PuzGridInputs ==
    UNION {
      UNION {
        { mk_header(MAGIC, d[1], d[2], n, 0) \o mask_bytes(mask)
            \o Repeat(B_DASH, d[1] * d[2]) \o string_table(n)
          : n \in {0, 2, count_clues(d[1], d[2], mask_bytes(mask))} }
        : mask \in [1..(d[1] * d[2]) -> BOOLEAN] }
      : d \in Dims }

\* a signature that differs from MAGIC in its first byte
BadMagic == [MAGIC EXCEPT ![1] = 88]

\* every prefix of a buffer whose width and height range over 0..2, with a
\* right and a wrong signature
PuzHeaderInputs ==
    UNION {
      LET full == mk_header(m, wh[1], wh[2], 0, 0)
                  \o Repeat(65, wh[1] * wh[2]) \o Repeat(B_DASH, wh[1] * wh[2])
                  \o string_table(0)
      IN  { SubSeq(full, 1, n) : n \in 0..Len(full) }
      : m \in {MAGIC, BadMagic}, wh \in (0..2) \X (0..2) }

\* solution bytes: black, the two "no answer" markers, a lower-case letter
SolBytes == {B_DOT, B_DASH, B_COLON, 97}

\* player-state bytes: empty, black, zero, a lower-case letter
StateBytes == {B_DASH, B_DOT, 0, 120}

\* one extension section: name, length, checksum, payload, terminator
section(name, payload) ==
    name \o <<Len(payload) % 256, Len(payload) \div 256, 0, 0>> \o payload \o <<0>>

\* " 0:HEART;1:ab;" as the rebus table
RtblBytes == <<32, 48, 58, 72, 69, 65, 82, 84, 59, 49, 58, 97, 98, 59>>

\* what may follow the string table: nothing, or the three grid extensions
\* with every flag bit set and rebus keys 1, 2, 0, 3
ExtTails ==
    { <<>>,
      section(EXT_GEXT, Repeat(208, 4)) \o section(EXT_RTBL, RtblBytes)
        \o section(EXT_GRBS, <<1, 2, 0, 3>>) }

\* 2x2 grids over every choice of solution bytes, a uniform player state, a
\* zero or nonzero scramble tag, with and without extensions
PuzCellInputs ==
    { mk_header(MAGIC, 2, 2, 4, tag) \o sol \o Repeat(sb, 4)
        \o string_table(4) \o ext
      : sol \in [1..4 -> SolBytes], sb \in StateBytes, tag \in {0, 1, 256},
        ext \in ExtTails }

\* the bytes an arbitrary string table is drawn from: NUL, 'a', 0xE9
TailBytes == {0, 97, 233}

\* a 2x1 grid followed by an arbitrary byte string of at most MaxTail bytes,
\* with 0..2 declared clues
PuzStringInputs ==
    UNION {
      { mk_header(MAGIC, 2, 1, n, 0) \o <<65, 66>> \o Repeat(B_DASH, 2) \o tail
        : tail \in [1..len -> TailBytes], n \in 0..2 }
      : len \in 0..MaxTail }

\* the most extension sections of an enumerated buffer
MaxSections == 3

\* the sections tried: a rebus grid, a rebus table "0:AB;", a timer "1,0", a
\* section of the unknown name "ABCD", and a header that declares 65535
\* bytes of payload where two follow
SectionChoices ==
    { section(EXT_GRBS, <<1, 0>>),
      section(EXT_RTBL, <<48, 58, 65, 66, 59>>),
      section(EXT_LTIM, <<49, 44, 48>>),
      section(<<65, 66, 67, 68>>, <<1>>),
      EXT_GEXT \o <<255, 255, 0, 0>> \o <<128, 128>> }

\* a 2x1 grid, the string table, and up to MaxSections sections, whole or
\* without the last byte of the buffer
PuzSectionInputs ==
    UNION {
      { LET data == mk_header(MAGIC, 2, 1, 0, 0) \o <<65, 66>> \o Repeat(B_DASH, 2)
                      \o string_table(0) \o Concat(sections)
        IN  SubSeq(data, 1, Len(data) - cut)
        : sections \in [1..n -> SectionChoices], cut \in {0, 1} }
      : n \in 0..MaxSections }

\* the rebus tables tried: none, then "0:AB;", "0:AB;0:CD;", " 0:AB; 1:C D ;",
\* "x:Q;1:Z", "256:Q;254:W;+1:P;", "0:A:B;;:;1" and the empty table
RebusTables ==
    { None,
      Some(<<48, 58, 65, 66, 59>>),
      Some(<<48, 58, 65, 66, 59, 48, 58, 67, 68, 59>>),
      Some(<<32, 48, 58, 65, 66, 59, 32, 49, 58, 67, 32, 68, 32, 59>>),
      Some(<<120, 58, 81, 59, 49, 58, 90>>),
      Some(<<50, 53, 54, 58, 81, 59, 50, 53, 52, 58, 87, 59, 43, 49, 58, 80, 59>>),
      Some(<<48, 58, 65, 58, 66, 59, 59, 58, 59, 49>>),
      Some(<<>>) }

\* the rebus grids tried: none, empty, shorter than the grid, and of its size
RebusGrids ==
    { None, Some(<<>>), Some(<<1>>), Some(<<1, 1, 2, 0>>), Some(<<2, 1, 1, 3>>),
      Some(<<255, 0, 0, 1>>) }

\* the 2x2 grid A . / B C followed by a rebus table and a rebus grid
PuzRebusInputs ==
    { mk_header(MAGIC, 2, 2, 0, 0) \o <<65, B_DOT, 66, 67>>
        \o <<B_DASH, B_DOT, B_DASH, B_DASH>> \o string_table(0)
        \o (IF rtbl = None THEN <<>> ELSE section(EXT_RTBL, rtbl[1]))
        \o (IF grbs = None THEN <<>> ELSE section(EXT_GRBS, grbs[1]))
      : rtbl \in RebusTables, grbs \in RebusGrids }

PuzInputs ==
    {TestPuz} \cup PuzGridInputs \cup PuzHeaderInputs \cup PuzCellInputs
    \cup PuzStringInputs \cup PuzSectionInputs \cup PuzRebusInputs

----------------------------------------------------------------------------
(* The decode call as a state machine *)

NoLocals == <<>>

\* the decoder is called directly, not through parse(data, extension)
NoCall == <<>>

InitPuz ==
    /\ call = NoCall
    /\ fmt = "puz"
    /\ input \in PuzInputs
    /\ pc = "header"
    /\ puz = [hd |-> None, st |-> None, extensions |-> None, walk |-> None]
    /\ ipuz = NoLocals
    /\ jpz = NoLocals
    /\ result = NoResult

\* parse, lines 47-93: the header checks and the header fields
PuzHeader ==
    /\ fmt = "puz" /\ pc = "header"
    /\ LET hd == puz_header(input)
       IN  IF hd.kind = "Ok"
           THEN /\ puz' = [puz EXCEPT !.hd = Some(hd.value)]
                /\ pc' = "strings"
                /\ UNCHANGED result
           ELSE /\ result' = hd
                /\ pc' = "done"
                /\ UNCHANGED puz
    /\ UNCHANGED <<call, fmt, input, ipuz, jpz>>

\* parse, lines 95-103: the string table
PuzStrings ==
    /\ fmt = "puz" /\ pc = "strings"
    /\ LET st == puz_strings(input, Unwrap(puz.hd))
       IN  IF st.kind = "Ok"
           THEN /\ puz' = [puz EXCEPT !.st = Some(st.value)]
                /\ pc' = "extensions"
                /\ UNCHANGED result
           ELSE /\ result' = st
                /\ pc' = "done"
                /\ UNCHANGED puz
    /\ UNCHANGED <<call, fmt, input, ipuz, jpz>>

\* parse, lines 105-111: where the extension sections start, if they are there
PuzExtensions ==
    /\ fmt = "puz" /\ pc = "extensions"
    /\ LET hd == Unwrap(puz.hd)
           rest == Slice(input, hd.state_end, Len(input))
           extensions_start == find_extensions_start(rest, hd.num_clues + 4)
       IN  IF IsSome(extensions_start)
           THEN /\ puz' = [puz EXCEPT
                             !.extensions = Some(DefaultExtensions),
                             !.walk = Some([data |-> Slice(rest, Unwrap(extensions_start), Len(rest)),
                                            pos |-> 0])]
                /\ pc' = "sections"
           ELSE /\ puz' = [puz EXCEPT !.extensions = Some(DefaultExtensions)]
                /\ pc' = "grid"
    /\ UNCHANGED <<call, fmt, input, ipuz, jpz, result>>

\* parse_extensions, lines 215-246: one turn of the while loop
PuzSection ==
    /\ fmt = "puz" /\ pc = "sections"
    /\ LET walk == Unwrap(puz.walk)
           step == parse_extensions_step(walk.data, walk.pos, Unwrap(puz.extensions))
       IN  IF step.break
           THEN /\ pc' = "grid"
                /\ UNCHANGED puz
           ELSE /\ puz' = [puz EXCEPT !.extensions = Some(step.ext),
                                      !.walk = Some([walk EXCEPT !.pos = step.pos])]
                /\ UNCHANGED pc
    /\ UNCHANGED <<call, fmt, input, ipuz, jpz, result>>

\* parse, lines 113-137: build_grid and the returned Puzzle
PuzBuildGrid ==
    /\ fmt = "puz" /\ pc = "grid"
    /\ result' = Ok(puz_puzzle(Unwrap(puz.hd), Unwrap(puz.st), Unwrap(puz.extensions)))
    /\ pc' = "done"
    /\ UNCHANGED <<call, fmt, input, puz, ipuz, jpz>>

NextPuz == PuzHeader \/ PuzStrings \/ PuzExtensions \/ PuzSection \/ PuzBuildGrid

SpecPuz == InitPuz /\ [][NextPuz]_vars

\* the decoder on the buffers with extension sections
InitPuzSections == InitPuz /\ input \in PuzSectionInputs

\* a call runs to its return: no stage of parse waits for anything.  This is
\* weak fairness of NextPuz, WF_vars(NextPuz), with ENABLED <<NextPuz>>_vars
\* written as what it is in every reachable state, pc # "done".
SpecPuzSections ==
    /\ InitPuzSections /\ [][NextPuz]_vars
    /\ ([]<>(pc = "done") \/ []<><<NextPuz>>_vars)

----------------------------------------------------------------------------
(* The JSON decoder, ipuz.rs.  The input is the text already read by        *)
(* serde_json: either not deserializable into IpuzFile (valid_json FALSE),  *)
(* or the IpuzFile.  A serde_json::Value is a record tagged by t.           *)

JNull == [t |-> "Null"]

JBool(b) == [t |-> "Bool", b |-> b]

\* a number: u64 is what as_u64() returns, None for a negative or fractional
\* one.  A u64 n is held as [hi, lo] with n = hi * 2^32 + lo and lo < 2^32.
JNum(u) ==
    [t |-> "Number",
     u64 |-> IF u = None THEN None ELSE Some([hi |-> 0, lo |-> Unwrap(u)])]

\* the number hi * 2^32 + lo
JBig(hi, lo) == [t |-> "Number", u64 |-> Some([hi |-> hi, lo |-> lo])]

JStr(str) == [t |-> "String", s |-> str]

JArr(items) == [t |-> "Array", items |-> items]

\* fields: a function from key to Value
JObj(fields) == [t |-> "Object", fields |-> fields]

\* Value::as_u64
as_u64(v) == IF v.t = "Number" THEN v.u64 ELSE None

\* n as u32, the low 32 bits of a u64, under an Option
as_u32(o) == IF IsSome(o) THEN Some(Unwrap(o).lo) ELSE None

\* Value::as_str
as_str(v) == IF v.t = "String" THEN Some(v.s) ELSE None

\* Value::get(key) and Map::get(key): None unless an object with that key
json_get(v, key) ==
    IF v.t = "Object" /\ key \in DOMAIN v.fields THEN Some(v.fields[key]) ELSE None

\* "#"
S_HASH == <<35>>

\* "circle"
S_CIRCLE == <<99, 105, 114, 99, 108, 101>>

\* "http://ipuz.org/crossword"
CROSSWORD_PREFIX ==
    <<104, 116, 116, 112, 58, 47, 47, 105, 112, 117, 122, 46, 111, 114, 103, 47, 99, 114, 111, 115, 115, 119, 111, 114, 100>>

\* str::starts_with
StartsWith(str, prefix) ==
    Len(str) >= Len(prefix) /\ SubSeq(str, 1, Len(prefix)) = prefix

\* char::to_uppercase for the code points of Latin-1; the inputs use no others
char_to_uppercase(c) == IF c < 256 THEN byte_to_uppercase(c) ELSE <<c>>

\* str::to_uppercase
to_uppercase(str) == Concat([i \in 1..Len(str) |-> char_to_uppercase(str[i])])

\* the number of bytes of a code point in UTF-8
utf8_len(c) == IF c < 128 THEN 1 ELSE IF c < 2048 THEN 2 ELSE IF c < 65536 THEN 3 ELSE 4

RECURSIVE str_len(_)
\* str::len: the length in bytes
str_len(str) == IF str = <<>> THEN 0 ELSE utf8_len(Head(str)) + str_len(Tail(str))

\* Option<String>::unwrap_or_default
unwrap_or_default(o) == IF IsSome(o) THEN Unwrap(o) ELSE <<>>

\* cell_num.filter(|&n| n > 0)
filter_positive(o) == IF IsSome(o) /\ Unwrap(o) > 0 THEN o ELSE None

\* parse_puzzle_cell reading the number of a plain number only: an object
\* cell never carries a number
parse_puzzle_cell_plain_only(val) ==
    IF val.t = "String" /\ val.s = S_HASH
    THEN [is_black |-> TRUE, number |-> None, is_circled |-> FALSE]
    ELSE IF val.t = "Number"
    THEN [is_black |-> FALSE, number |-> filter_positive(as_u32(as_u64(val))),
          is_circled |-> FALSE]
    ELSE IF val.t = "Null"
    THEN [is_black |-> TRUE, number |-> None, is_circled |-> FALSE]
    ELSE IF val.t = "Object"
    THEN LET cell == json_get(val, "cell")
             style == json_get(val, "style")
             shapebg == IF IsSome(style) THEN json_get(Unwrap(style), "shapebg")
                        ELSE None
             is_circled == IsSome(shapebg) /\ as_str(Unwrap(shapebg)) = Some(S_CIRCLE)
             is_block == IsSome(cell) /\ as_str(Unwrap(cell)) = Some(S_HASH)
         IN  IF is_block
             THEN [is_black |-> TRUE, number |-> None, is_circled |-> FALSE]
             ELSE [is_black |-> FALSE, number |-> None,
                   is_circled |-> is_circled]
    ELSE [is_black |-> FALSE, number |-> None, is_circled |-> FALSE]

\* parse_puzzle_cell: [is_black, number, is_circled]
parse_puzzle_cell(val) ==
    IF val.t = "String" /\ val.s = S_HASH
    THEN [is_black |-> TRUE, number |-> None, is_circled |-> FALSE]
    ELSE IF val.t = "Number"
    THEN [is_black |-> FALSE, number |-> filter_positive(as_u32(as_u64(val))),
          is_circled |-> FALSE]
    ELSE IF val.t = "Null"
    THEN [is_black |-> TRUE, number |-> None, is_circled |-> FALSE]
    ELSE IF val.t = "Object"
    THEN LET cell == json_get(val, "cell")
             cell_num == IF IsSome(cell) THEN as_u32(as_u64(Unwrap(cell))) ELSE None
             style == json_get(val, "style")
             shapebg == IF IsSome(style) THEN json_get(Unwrap(style), "shapebg")
                        ELSE None
             is_circled == IsSome(shapebg) /\ as_str(Unwrap(shapebg)) = Some(S_CIRCLE)
             is_block == IsSome(cell) /\ as_str(Unwrap(cell)) = Some(S_HASH)
         IN  IF is_block
             THEN [is_black |-> TRUE, number |-> None, is_circled |-> FALSE]
             ELSE [is_black |-> FALSE, number |-> filter_positive(cell_num),
                   is_circled |-> is_circled]
    ELSE [is_black |-> FALSE, number |-> None, is_circled |-> FALSE]

\* the (solution, rebus_solution) of an answer string
solution_of(str) ==
    LET upper == to_uppercase(str)
    IN  IF str_len(upper) > 1
        THEN [solution |-> Some(<<upper[1]>>), rebus_solution |-> Some(upper)]
        ELSE [solution |-> Some(upper), rebus_solution |-> None]

NoSolution == [solution |-> None, rebus_solution |-> None]

parse_solution_cell(val) ==
    IF val.t = "String"
    THEN (IF val.s = S_HASH \/ val.s = <<>> THEN NoSolution ELSE solution_of(val.s))
    ELSE IF val.t = "Object"
    THEN LET v == json_get(val, "value")
         IN  IF IsSome(v) /\ IsSome(as_str(Unwrap(v)))
             THEN solution_of(Unwrap(as_str(Unwrap(v)))) ELSE NoSolution
    ELSE NoSolution

\* the solution value at (row, col) (1-based), when the solution array has one
solution_at(solution_grid, row, col) ==
    IF IsSome(solution_grid) /\ row <= Len(Unwrap(solution_grid))
       /\ col <= Len(Unwrap(solution_grid)[row])
    THEN parse_solution_cell(Unwrap(solution_grid)[row][col])
    ELSE NoSolution

\* the Cell pushed for one value of the puzzle array
ipuz_cell(cell_val, solution_grid, row, col) ==
    LET pc_ == parse_puzzle_cell(cell_val)
        sol == solution_at(solution_grid, row, col)
    IN  IF pc_.is_black THEN BlackCell
        ELSE LetterCell(pc_.number, sol.solution, sol.rebus_solution, None,
                        pc_.is_circled, FALSE, FALSE)

\* find_clue_position: the first cell in row-major order with that number
find_clue_position(grid, number) ==
    LET hits == {q \in {<<r, c>> : r \in 1..Len(grid), c \in 1..Len(grid[1])} :
                   grid[q[1]][q[2]].number = Some(number)}
    IN  IF hits = {} THEN None
        ELSE Some(CHOOSE q \in hits :
                    \A o \in hits : q[1] < o[1] \/ (q[1] = o[1] /\ q[2] <= o[2]))

RECURSIVE compute_word_length_across(_, _, _, _)
\* row, col are 0-based, as in the code
compute_word_length_across(grid, w, row, col) ==
    IF col < w /\ grid[row + 1][col + 1].kind # "Black"
    THEN 1 + compute_word_length_across(grid, w, row, col + 1)
    ELSE 0

RECURSIVE compute_word_length_down(_, _, _, _)
compute_word_length_down(grid, h, row, col) ==
    IF row < h /\ grid[row + 1][col + 1].kind # "Black"
    THEN 1 + compute_word_length_down(grid, h, row + 1, col)
    ELSE 0

RECURSIVE build_clues_loop(_, _, _, _, _, _, _)
\* the for loop of build_clues from entry i on
build_clues_loop(clue_values, i, grid, w, h, is_across, clues) ==
    IF i > Len(clue_values) THEN Ok(clues)
    ELSE LET val == clue_values[i]
         IN  IF ~(val.t = "Array" /\ Len(val.items) >= 2)
             THEN build_clues_loop(clue_values, i + 1, grid, w, h, is_across, clues)
             ELSE LET num == as_u32(as_u64(val.items[1]))
                      text == IF IsSome(as_str(val.items[2]))
                              THEN Unwrap(as_str(val.items[2])) ELSE <<>>
                      position == find_clue_position(grid, Unwrap(num))
                      row == Unwrap(position)[1] - 1
                      col == Unwrap(position)[2] - 1
                      length == IF is_across
                                THEN compute_word_length_across(grid, w, row, col)
                                ELSE compute_word_length_down(grid, h, row, col)
                  IN  IF ~IsSome(num)
                      THEN Err(InvalidData(<<"clue number is not a number">>))
                      ELSE IF ~IsSome(position)
                      THEN Err(InvalidData(<<"clue {} not found in grid", Unwrap(num)>>))
                      ELSE build_clues_loop(clue_values, i + 1, grid, w, h, is_across,
                               Append(clues, Clue(Unwrap(num), text, row, col, length)))

build_clues(clue_values, grid, w, h, is_across) ==
    build_clues_loop(clue_values, 1, grid, w, h, is_across, <<>>)

\* ipuz.kind.iter().any(|k| k.starts_with("http://ipuz.org/crossword"))
is_crossword(kind) ==
    \E i \in 1..Len(kind) : StartsWith(kind[i], CROSSWORD_PREFIX)

\* the checks with the kind tested last, after the dimensions and the array
ipuz_validate_kind_last(file) ==
    IF ~IsSome(file.dimensions)
    THEN Err(InvalidData(<<"missing dimensions">>))
    ELSE IF Unwrap(file.dimensions).width = 0 \/ Unwrap(file.dimensions).height = 0
    THEN Err(InvalidDimensions(Unwrap(file.dimensions).width,
                               Unwrap(file.dimensions).height))
    ELSE IF ~IsSome(file.puzzle)
    THEN Err(InvalidData(<<"missing puzzle grid">>))
    ELSE IF Len(Unwrap(file.puzzle)) # Unwrap(file.dimensions).height
    THEN Err(InvalidData(<<"puzzle grid has {} rows, expected {}",
                           Len(Unwrap(file.puzzle)), Unwrap(file.dimensions).height>>))
    ELSE IF ~is_crossword(file.kind)
    THEN Err(InvalidData(<<"ipuz file is not a crossword puzzle (missing crossword kind)">>))
    ELSE Ok([w |-> Unwrap(file.dimensions).width,
             h |-> Unwrap(file.dimensions).height])

\* parse, lines 45-79: the checks before the grid is built
ipuz_validate(file) ==
    IF ~is_crossword(file.kind)
    THEN Err(InvalidData(<<"ipuz file is not a crossword puzzle (missing crossword kind)">>))
    ELSE IF ~IsSome(file.dimensions)
    THEN Err(InvalidData(<<"missing dimensions">>))
    ELSE IF Unwrap(file.dimensions).width = 0 \/ Unwrap(file.dimensions).height = 0
    THEN Err(InvalidDimensions(Unwrap(file.dimensions).width,
                               Unwrap(file.dimensions).height))
    ELSE IF ~IsSome(file.puzzle)
    THEN Err(InvalidData(<<"missing puzzle grid">>))
    ELSE IF Len(Unwrap(file.puzzle)) # Unwrap(file.dimensions).height
    THEN Err(InvalidData(<<"puzzle grid has {} rows, expected {}",
                           Len(Unwrap(file.puzzle)), Unwrap(file.dimensions).height>>))
    ELSE Ok([w |-> Unwrap(file.dimensions).width,
             h |-> Unwrap(file.dimensions).height])

\* ipuz_grid without the test of the row lengths: each row gives the cells
\* it has, w at most
ipuz_grid_unchecked_rows(file, w, h) ==
    LET puzzle_grid == Unwrap(file.puzzle)
    IN  Ok([r \in 1..h |->
              [c \in 1..Min(w, Len(puzzle_grid[r])) |->
                 ipuz_cell(puzzle_grid[r][c], file.solution, r, c)]])

\* ipuz_grid naming the last row whose length is not w instead of the first
ipuz_grid_last_bad_row(file, w, h) ==
    LET puzzle_grid == Unwrap(file.puzzle)
        bad == {r \in 1..h : Len(puzzle_grid[r]) # w}
        last == CHOOSE r \in bad : \A o \in bad : r >= o
    IN  IF bad # {}
        THEN Err(InvalidData(<<"row {} has {} cells, expected {}",
                               last - 1, Len(puzzle_grid[last]), w>>))
        ELSE Ok([r \in 1..h |->
                   [c \in 1..w |-> ipuz_cell(puzzle_grid[r][c], file.solution, r, c)]])

\* parse, lines 81-138: the grid, or the failure of the first row whose
\* length is not w (rows are 0-based in the message)
ipuz_grid(file, w, h) ==
    LET puzzle_grid == Unwrap(file.puzzle)
        bad == {r \in 1..h : Len(puzzle_grid[r]) # w}
        first == CHOOSE r \in bad : \A o \in bad : r <= o
    IN  IF bad # {}
        THEN Err(InvalidData(<<"row {} has {} cells, expected {}",
                               first - 1, Len(puzzle_grid[first]), w>>))
        ELSE Ok([r \in 1..h |->
                   [c \in 1..w |-> ipuz_cell(puzzle_grid[r][c], file.solution, r, c)]])

\* parse, lines 140-162: the clues and the returned Puzzle
ipuz_finish(file, w, h, grid) ==
    LET across == build_clues(Unwrap(file.clues).across, grid, w, h, TRUE)
        down == build_clues(Unwrap(file.clues).down, grid, w, h, FALSE)
    IN  IF ~IsSome(file.clues) THEN Err(InvalidData(<<"missing clues">>))
        ELSE IF across.kind # "Ok" THEN across
        ELSE IF down.kind # "Ok" THEN down
        ELSE Ok([title |-> unwrap_or_default(file.title),
                 author |-> unwrap_or_default(file.author),
                 copyright |-> unwrap_or_default(file.copyright),
                 notes |-> unwrap_or_default(file.notes),
                 width |-> w, height |-> h, grid |-> grid,
                 clues |-> [across |-> across.value, down |-> down.value],
                 has_solution |-> IsSome(file.solution), is_scrambled |-> FALSE])

\* ipuz::parse as a function of the input
ipuz_parse(in) ==
    LET v == ipuz_validate(in.file)
        g == ipuz_grid(in.file, v.value.w, v.value.h)
    IN  IF ~in.valid_json THEN Err(JsonError)
        ELSE IF v.kind # "Ok" THEN v
        ELSE IF g.kind # "Ok" THEN g
        ELSE ipuz_finish(in.file, v.value.w, v.value.h, g.value)

----------------------------------------------------------------------------
(* JSON inputs *)

\* "http://ipuz.org/crossword#1"
KIND_CROSSWORD ==
    <<104, 116, 116, 112, 58, 47, 47, 105, 112, 117, 122, 46, 111, 114, 103, 47, 99, 114, 111, 115, 115, 119, 111, 114, 100, 35, 49>>

\* "http://ipuz.org/sudoku#1"
KIND_SUDOKU ==
    <<104, 116, 116, 112, 58, 47, 47, 105, 112, 117, 122, 46, 111, 114, 103, 47, 115, 117, 100, 111, 107, 117, 35, 49>>

\* [number, "text"]
clue_entry(number, text) == JArr(<<JNum(Some(number)), JStr(text)>>)

\* an IpuzFile with the crossword kind and no text metadata
ipuz_file(dimensions, puzzle, solution, clues) ==
    [valid_json |-> TRUE,
     file |-> [kind |-> <<KIND_CROSSWORD>>, dimensions |-> dimensions,
               puzzle |-> puzzle, solution |-> solution, clues |-> clues,
               title |-> None, author |-> None, copyright |-> None,
               notes |-> None]]

\* the number a conventionally numbered file gives the cell of flat index idx:
\* its rank among the word starts, 0 when no word starts there
std_number(w, h, bytes, idx) ==
    IF is_across_start(bytes, w, h, idx \div w, idx % w)
       \/ is_down_start(bytes, w, h, idx \div w, idx % w)
    THEN Cardinality({i \in 0..idx :
                        \/ is_across_start(bytes, w, h, i \div w, i % w)
                        \/ is_down_start(bytes, w, h, i \div w, i % w)})
    ELSE 0

\* the clue list of one direction of a conventionally numbered file
std_clues(w, h, bytes, across) ==
    LET idxs == SelectSeq([i \in 1..(w * h) |-> i - 1],
                    LAMBDA i : IF across
                               THEN is_across_start(bytes, w, h, i \div w, i % w)
                               ELSE is_down_start(bytes, w, h, i \div w, i % w))
    IN  [k \in 1..Len(idxs) |->
           clue_entry(std_number(w, h, bytes, idxs[k]), <<96 + k>>)]

\* the conventionally numbered file of a black/white pattern, with a solution
std_ipuz(w, h, mask) ==
    LET bytes == mask_bytes(mask)
    IN  ipuz_file(
          Some([width |-> w, height |-> h]),
          Some([r \in 1..h |-> [c \in 1..w |->
                 IF mask[(r - 1) * w + c] THEN JStr(S_HASH)
                 ELSE JNum(Some(std_number(w, h, bytes, (r - 1) * w + c - 1)))]]),
          Some([r \in 1..h |-> [c \in 1..w |->
                 IF mask[(r - 1) * w + c] THEN JStr(S_HASH)
                 ELSE JStr(<<bytes[(r - 1) * w + c]>>)]]),
          Some([across |-> std_clues(w, h, bytes, TRUE),
                down |-> std_clues(w, h, bytes, FALSE)]))

\* every black/white pattern of every enumerated size, conventionally numbered
IpuzStandardInputs ==
    UNION { { std_ipuz(d[1], d[2], mask) : mask \in [1..(d[1] * d[2]) -> BOOLEAN] }
            : d \in Dims }

\* {"cell": 1, "style": {"shapebg": "circle"}}
CircledOne ==
    JObj([k \in {"cell", "style"} |->
            IF k = "cell" THEN JNum(Some(1))
            ELSE JObj([j \in {"shapebg"} |-> JStr(S_CIRCLE)])])

\* the usual cell values: block, unnumbered, numbered, circled
CellValues == {JStr(S_HASH), JNum(Some(0)), JNum(Some(1)), JNum(Some(2)), CircledOne}

\* the other shapes a cell value may take
OddCellValues ==
    { JNull, JBool(TRUE), JStr(<<120>>), JNum(None), JArr(<<>>),
      JObj([k \in {"cell"} |-> JStr(S_HASH)]),
      JObj([k \in {"cell"} |-> JNum(Some(2))]),
      JObj([k \in {"cell"} |-> JStr(<<120>>)]),
      JObj([k \in {"style"} |-> JObj([j \in {"shapebg"} |-> JStr(S_CIRCLE)])]),
      JObj([k \in {"cell", "style"} |->
              IF k = "cell" THEN JStr(S_HASH)
              ELSE JObj([j \in {"shapebg"} |-> JStr(S_CIRCLE)])]) }

\* a solution array giving "a" for every cell, blocks included
SolutionAllA(w, h) == [r \in 1..h |-> [c \in 1..w |-> JStr(<<97>>)]]

\* the clue lists tried with arbitrary cell values
ClueChoices ==
    { [across |-> <<clue_entry(1, <<97>>)>>, down |-> <<>>],
      [across |-> <<clue_entry(1, <<97>>)>>, down |-> <<clue_entry(2, <<98>>)>>] }

\* 2x2 puzzle arrays over the usual cell values, with and without a solution
IpuzCellInputs ==
    { ipuz_file(Some([width |-> 2, height |-> 2]),
                Some(<<<<cells[1], cells[2]>>, <<cells[3], cells[4]>>>>),
                sol, Some(clues))
      : cells \in [1..4 -> CellValues],
        sol \in {None, Some(SolutionAllA(2, 2))},
        clues \in ClueChoices }

\* 2x1 puzzle arrays over every cell value, without clues
IpuzValueInputs ==
    { ipuz_file(Some([width |-> 2, height |-> 1]), Some(<<<<a, b>>>>),
                sol, Some([across |-> <<>>, down |-> <<>>]))
      : a \in CellValues \cup OddCellValues, b \in CellValues \cup OddCellValues,
        sol \in {None, Some(SolutionAllA(2, 1))} }

\* the longest row and the largest row count of the malformed puzzle arrays
MaxShape == 2

\* puzzle arrays of MaxShape + 1 rows at most, each of 0..MaxShape unnumbered cells
ShapeGrids ==
    UNION { [1..rows -> {Repeat(JNum(Some(0)), n) : n \in 0..MaxShape}]
            : rows \in 0..(MaxShape + 1) }

\* every kind list, declared size and array shape, well-formed or not, and
\* the text that is no JSON at all
IpuzShapeInputs ==
    { [valid_json |-> TRUE,
       file |-> [kind |-> kind, dimensions |-> dims, puzzle |-> puzzle,
                 solution |-> None, clues |-> clues,
                 title |-> Some(<<84>>), author |-> None, copyright |-> None,
                 notes |-> None]]
      : kind \in {<<>>, <<KIND_SUDOKU>>, <<KIND_SUDOKU, KIND_CROSSWORD>>},
        dims \in {None} \cup {Some([width |-> w, height |-> h]) :
                                w \in 0..MaxShape, h \in 0..MaxShape},
        puzzle \in {None} \cup {Some(g) : g \in ShapeGrids},
        clues \in {None, Some([across |-> <<>>, down |-> <<>>])} }
    \cup { [valid_json |-> FALSE, file |-> None] }

\* the shapes a solution-array value may take: null, block, empty, "a", "ab",
\* "e-acute", "sharp-s a", {"value": "xy"}, {"value": ""}, {"value": 5}, 1
SolutionValues ==
    { JNull, JStr(S_HASH), JStr(<<>>), JStr(<<97>>), JStr(<<97, 98>>),
      JStr(<<233>>), JStr(<<223, 97>>),
      JObj([k \in {"value"} |-> JStr(<<120, 121>>)]),
      JObj([k \in {"value"} |-> JStr(<<>>)]),
      JObj([k \in {"value"} |-> JNum(Some(5))]),
      JNum(Some(1)) }

\* a 2x1 puzzle [[1, 0]] with every solution array of at most one row of at
\* most two values, and with none
IpuzSolutionInputs ==
    { ipuz_file(Some([width |-> 2, height |-> 1]),
                Some(<<<<JNum(Some(1)), JNum(Some(0))>>>>), sol,
                Some([across |-> <<clue_entry(1, <<97>>)>>, down |-> <<>>]))
      : sol \in {None, Some(<<>>)}
                 \cup {Some(<<<<a>>>>) : a \in SolutionValues}
                 \cup {Some(<<<<a, b>>>>) : a \in SolutionValues, b \in SolutionValues} }

\* the longest clue list of the enumerated clue lists
MaxClues == 2

\* entries of a clue list, well-formed and not: [1,"a"], [2,"b"], [1,"a",null],
\* [1,5], [3,"c"], [0,"z"], "x", null, [1], [], ["x","a"], [null,"a"], [-1,"a"],
\* [4294967297,"a"]
ClueEntries ==
    { clue_entry(1, <<97>>), clue_entry(2, <<98>>),
      JArr(<<JNum(Some(1)), JStr(<<97>>), JNull>>),
      JArr(<<JNum(Some(1)), JNum(Some(5))>>),
      clue_entry(3, <<99>>), clue_entry(0, <<122>>),
      JStr(<<120>>), JNull, JArr(<<JNum(Some(1))>>), JArr(<<>>),
      JArr(<<JStr(<<120>>), JStr(<<97>>)>>), JArr(<<JNull, JStr(<<97>>)>>),
      JArr(<<JNum(None), JStr(<<97>>)>>), JArr(<<JBig(1, 1), JStr(<<97>>)>>) }

\* the puzzle [[1, 2], [0, "#"]] with every Across list of MaxClues entries
\* at most, and the same lists as Down lists
IpuzClueInputs ==
    { ipuz_file(Some([width |-> 2, height |-> 2]),
                Some(<<<<JNum(Some(1)), JNum(Some(2))>>, <<JNum(Some(0)), JStr(S_HASH)>>>>),
                None,
                Some(IF is_across THEN [across |-> list, down |-> <<>>]
                                  ELSE [across |-> <<>>, down |-> list]))
      : list \in UNION {[1..n -> ClueEntries] : n \in 0..MaxClues},
        is_across \in BOOLEAN }

\* the fixture of the decoder's tests (make_test_ipuz): numbers 1 2 3 / # 0 # /
\* 4 0 5, solution CAT / #O# / DGS, Across 1 and 4, Down 1, 2 and 3
TestIpuz ==
    [valid_json |-> TRUE,
     file |-> [kind |-> <<KIND_CROSSWORD>>,
               dimensions |-> Some([width |-> 3, height |-> 3]),
               puzzle |-> Some(<<
                   <<JNum(Some(1)), JNum(Some(2)), JNum(Some(3))>>,
                   <<JStr(S_HASH), JNum(Some(0)), JStr(S_HASH)>>,
                   <<JNum(Some(4)), JNum(Some(0)), JNum(Some(5))>> >>),
               solution |-> Some(<<
                   <<JStr(<<67>>), JStr(<<65>>), JStr(<<84>>)>>,
                   <<JStr(S_HASH), JStr(<<79>>), JStr(S_HASH)>>,
                   <<JStr(<<68>>), JStr(<<71>>), JStr(<<83>>)>> >>),
               clues |-> Some([
                   across |-> <<clue_entry(1, <<65, 32, 102, 101, 108, 105, 110, 101>>),
                                clue_entry(4, <<80, 108, 117, 114, 97, 108, 32, 111, 102, 32, 115, 111, 109, 101, 116, 104, 105, 110, 103>>)>>,
                   down |-> <<clue_entry(1, <<65, 32, 102, 105, 115, 104>>),
                              clue_entry(2, <<69, 120, 99, 108, 97, 109, 97, 116, 105, 111, 110>>),
                              clue_entry(3, <<83, 101, 118, 101, 114, 97, 108, 32, 111, 102, 32, 116, 104, 101, 115, 101>>)>>]),
               title |-> Some(<<84, 101, 115, 116, 32, 80, 117, 122, 122, 108, 101>>),
               author |-> Some(<<84, 101, 115, 116, 32, 65, 117, 116, 104, 111, 114>>),
               copyright |-> None, notes |-> None]]

IpuzInputs ==
    {TestIpuz} \cup IpuzStandardInputs \cup IpuzCellInputs \cup IpuzValueInputs
      \cup IpuzShapeInputs \cup IpuzSolutionInputs \cup IpuzClueInputs

InitIpuz ==
    /\ call = NoCall
    /\ fmt = "ipuz"
    /\ input \in IpuzInputs
    /\ pc = "deserialize"
    /\ puz = NoLocals
    /\ ipuz = [w |-> 0, h |-> 0, grid |-> <<>>]
    /\ jpz = NoLocals
    /\ result = NoResult

\* parse, line 43: serde_json::from_slice
IpuzDeserialize ==
    /\ fmt = "ipuz" /\ pc = "deserialize"
    /\ IF input.valid_json
       THEN pc' = "validate" /\ UNCHANGED result
       ELSE pc' = "done" /\ result' = Err(JsonError)
    /\ UNCHANGED <<call, fmt, input, puz, ipuz, jpz>>

\* parse, lines 45-79: kind, dimensions, puzzle array, row count
IpuzValidate ==
    /\ fmt = "ipuz" /\ pc = "validate"
    /\ LET v == ipuz_validate(input.file)
       IN  IF v.kind = "Ok"
           THEN /\ ipuz' = [ipuz EXCEPT !.w = v.value.w, !.h = v.value.h]
                /\ pc' = "grid"
                /\ UNCHANGED result
           ELSE /\ result' = v
                /\ pc' = "done"
                /\ UNCHANGED ipuz
    /\ UNCHANGED <<call, fmt, input, puz, jpz>>

\* parse, lines 81-138: the grid
IpuzBuildGrid ==
    /\ fmt = "ipuz" /\ pc = "grid"
    /\ LET g == ipuz_grid(input.file, ipuz.w, ipuz.h)
       IN  IF g.kind = "Ok"
           THEN /\ ipuz' = [ipuz EXCEPT !.grid = g.value]
                /\ pc' = "clues"
                /\ UNCHANGED result
           ELSE /\ result' = g
                /\ pc' = "done"
                /\ UNCHANGED ipuz
    /\ UNCHANGED <<call, fmt, input, puz, jpz>>

\* parse, lines 140-162: the clues and the result
IpuzBuildClues ==
    /\ fmt = "ipuz" /\ pc = "clues"
    /\ result' = ipuz_finish(input.file, ipuz.w, ipuz.h, ipuz.grid)
    /\ pc' = "done"
    /\ UNCHANGED <<call, fmt, input, puz, ipuz, jpz>>

NextIpuz == IpuzDeserialize \/ IpuzValidate \/ IpuzBuildGrid \/ IpuzBuildClues

SpecIpuz == InitIpuz /\ [][NextIpuz]_vars

----------------------------------------------------------------------------
(* The Archive/XML decoder, jpz.rs.  The input is a container, a zip        *)
(* archive or bare XML, and the XML is the sequence of events quick_xml     *)
(* reads from it before Eof.  An event is a record: type is Start, Empty,   *)
(* End, Text, Error (the reader fails there) or Other (a comment, CDATA,    *)
(* declaration, processing instruction or doctype); name is the local name  *)
(* of the element; attrs is the sequence of the <<key, value>> attributes   *)
(* that parse; text is the unescaped text, None when unescaping fails.      *)

StartEvent(name, attrs) ==
    [type |-> "Start", name |-> name, attrs |-> attrs, text |-> None]

EmptyEvent(name, attrs) ==
    [type |-> "Empty", name |-> name, attrs |-> attrs, text |-> None]

EndEvent(name) ==
    [type |-> "End", name |-> name, attrs |-> <<>>, text |-> None]

TextEvent(text) ==
    [type |-> "Text", name |-> "", attrs |-> <<>>, text |-> text]

ErrorEvent == [type |-> "Error", name |-> "", attrs |-> <<>>, text |-> None]

OtherEvent == [type |-> "Other", name |-> "", attrs |-> <<>>, text |-> None]

\* the largest number an attribute of the inputs spells; usize and u32 parse
\* every number up to their own maximum, which is above it
MaxParsed == 100000

\* str::parse::<u8>()
parse_u8(s) == parse_unsigned(s, U8_MAX)

\* str::parse::<u32>()
parse_u32(s) == parse_unsigned(s, MaxParsed)

\* str::parse::<usize>()
parse_usize(s) == parse_unsigned(s, MaxParsed)

\* Option::unwrap_or
unwrap_or(o, default) == IF IsSome(o) THEN Unwrap(o) ELSE default

\* usize::saturating_sub
saturating_sub(a, b) == IF a > b THEN a - b ELSE 0

\* "-"
C_DASH == 45

\* "block"
S_BLOCK == <<98, 108, 111, 99, 107>>

\* "across"
S_ACROSS == <<97, 99, 114, 111, 115, 115>>

\* "down"
S_DOWN == <<100, 111, 119, 110>>

\* str::contains(char)
contains_char(s, c) == IndexOf(s, c, 1) # 0

\* str::contains(&str)
contains(s, sub) ==
    \E i \in 1..(Len(s) - Len(sub) + 1) : SubSeq(s, i, i + Len(sub) - 1) = sub

\* char::to_lowercase of a code point below 256, where it is one code point
char_to_lowercase(c) ==
    IF c >= 65 /\ c <= 90 THEN c + 32
    ELSE IF c >= 192 /\ c <= 222 /\ c # 215 THEN c + 32
    ELSE c

\* str::to_lowercase
to_lowercase(str) == [i \in 1..Len(str) |-> char_to_lowercase(str[i])]

RECURSIVE strip_html_tags_loop(_, _, _, _)
strip_html_tags_loop(s, i, in_tag, acc) ==
    IF i > Len(s) THEN acc
    ELSE IF s[i] = 60 THEN strip_html_tags_loop(s, i + 1, TRUE, acc)
    ELSE IF s[i] = 62 THEN strip_html_tags_loop(s, i + 1, FALSE, acc)
    ELSE IF ~in_tag THEN strip_html_tags_loop(s, i + 1, in_tag, Append(acc, s[i]))
    ELSE strip_html_tags_loop(s, i + 1, in_tag, acc)

\* strip_html_tags: drop '<', '>' and what lies between a '<' and the next '>'
strip_html_tags(s) == strip_html_tags_loop(s, 1, FALSE, <<>>)

\* extract_from_zip taking the last file of the archive instead of the first
extract_from_zip_last_file(archive) ==
    LET n == Len(archive.entries)
    IN  IF ~archive.opens THEN Err(XmlError(<<"ZIP error">>))
        ELSE IF archive.entries = <<>> THEN Err(XmlError(<<"ZIP archive is empty">>))
        ELSE IF ~archive.entries[n].readable THEN Err(XmlError(<<"ZIP read error">>))
        ELSE IF ~archive.entries[n].inflates THEN Err(XmlError(<<"ZIP decompress error">>))
        ELSE Ok(archive.entries[n].events)

\* the archive of a zip container: opens says whether ZipArchive::new
\* accepts it, entries are its files; an entry is readable when by_index
\* opens it, inflates when read_to_end succeeds, and events is its content
extract_from_zip(archive) ==
    IF ~archive.opens THEN Err(XmlError(<<"ZIP error">>))
    ELSE IF archive.entries = <<>> THEN Err(XmlError(<<"ZIP archive is empty">>))
    ELSE IF ~archive.entries[1].readable THEN Err(XmlError(<<"ZIP read error">>))
    ELSE IF ~archive.entries[1].inflates THEN Err(XmlError(<<"ZIP decompress error">>))
    ELSE Ok(archive.entries[1].events)

\* ZIP magic bytes (PK\x03\x04)
ZIP_MAGIC == <<80, 75, 3, 4>>

\* parse, lines 19-23: the XML of the input.  The input is the first bytes
\* of the buffer (head), the archive the zip reader finds in it, if any, and
\* the events the XML reader yields when it reads the buffer itself.
xml_data(in) ==
    IF StartsWith(in.head, ZIP_MAGIC) THEN extract_from_zip(Unwrap(in.archive))
    ELSE Ok(in.events)

WordDef(id, start_col, start_row, length) ==
    [id |-> id, start_col |-> start_col, start_row |-> start_row,
     length |-> length]

RawCell(x, y, solution, number, is_block, is_circled) ==
    [x |-> x, y |-> y, solution |-> solution, number |-> number,
     is_block |-> is_block, is_circled |-> is_circled]

RawClue(word_id, number, text) ==
    [word_id |-> word_id, number |-> number, text |-> text]

RECURSIVE parse_cell_attrs(_, _, _)
\* parse_cell_element, lines 334-346: one attribute after the other
parse_cell_attrs(attrs, i, cell) ==
    IF i > Len(attrs) THEN cell
    ELSE LET key == attrs[i][1]
             val == attrs[i][2]
         IN  parse_cell_attrs(attrs, i + 1,
               IF key = "x" THEN [cell EXCEPT !.x = unwrap_or(parse_usize(val), 0)]
               ELSE IF key = "y" THEN [cell EXCEPT !.y = unwrap_or(parse_usize(val), 0)]
               ELSE IF key = "solution" THEN [cell EXCEPT !.solution = Some(val)]
               ELSE IF key = "number" THEN [cell EXCEPT !.number = parse_u32(val)]
               ELSE IF key = "type" /\ val = S_BLOCK THEN [cell EXCEPT !.is_block = TRUE]
               ELSE IF key = "background-shape" /\ val = S_CIRCLE
               THEN [cell EXCEPT !.is_circled = TRUE]
               ELSE cell)

parse_cell_element(e) ==
    Ok(parse_cell_attrs(e.attrs, 1, RawCell(0, 0, None, None, FALSE, FALSE)))

\* parse_range: "1-6" is (1, 6)
parse_range(s) ==
    LET parts == Split(s, C_DASH)
    IN  IF Len(parts) # 2 THEN Err(XmlError(<<"invalid range">>))
        ELSE IF ~IsSome(parse_usize(parts[1]))
        THEN Err(XmlError(<<"invalid range start">>))
        ELSE IF ~IsSome(parse_usize(parts[2]))
        THEN Err(XmlError(<<"invalid range end">>))
        ELSE Ok(<<Unwrap(parse_usize(parts[1])), Unwrap(parse_usize(parts[2]))>>)

\* (end - start + 1) as u8, lines 387 and 394.  With end < start the
\* subtraction overflows usize: a build with overflow checks panics there, a
\* build without them wraps, and the cast keeps the low eight bits.
span_length(start, end, overflow_checks) ==
    IF end < start /\ overflow_checks
    THEN Panic("end - start + 1")
    ELSE Ok((end - start + 1) % 256)

RECURSIVE parse_word_attrs(_, _, _)
\* parse_word_element, lines 365-374
parse_word_attrs(attrs, i, acc) ==
    IF i > Len(attrs) THEN acc
    ELSE LET key == attrs[i][1]
             val == attrs[i][2]
         IN  parse_word_attrs(attrs, i + 1,
               IF key = "id" THEN [acc EXCEPT !.id = val]
               ELSE IF key = "x" THEN [acc EXCEPT !.x_attr = val]
               ELSE IF key = "y" THEN [acc EXCEPT !.y_attr = val]
               ELSE acc)

\* parse_word_element: Ok(None) for a word to skip, Ok(Some(WordDef)) for a span
parse_word_element(e, overflow_checks) ==
    LET a == parse_word_attrs(e.attrs, 1, [id |-> <<>>, x_attr |-> <<>>, y_attr |-> <<>>])
        is_across == contains_char(a.x_attr, C_DASH)
        range == parse_range(IF is_across THEN a.x_attr ELSE a.y_attr)
        other == parse_usize(IF is_across THEN a.y_attr ELSE a.x_attr)
        length == span_length(range.value[1], range.value[2], overflow_checks)
    IN  IF a.id = <<>> THEN Ok(None)
        ELSE IF ~is_across /\ ~contains_char(a.y_attr, C_DASH) THEN Ok(None)
        ELSE IF range.kind # "Ok" THEN range
        ELSE IF ~IsSome(other)
        THEN Err(XmlError(IF is_across THEN <<"invalid word y">> ELSE <<"invalid word x">>))
        ELSE IF length.kind # "Ok" THEN length
        ELSE IF is_across
        THEN Ok(Some(WordDef(a.id, saturating_sub(range.value[1], 1),
                             saturating_sub(Unwrap(other), 1), length.value)))
        ELSE Ok(Some(WordDef(a.id, saturating_sub(Unwrap(other), 1),
                             saturating_sub(range.value[1], 1), length.value)))

\* parse_xml, lines 82-106: the locals before the first event
JpzLocals ==
    [title |-> <<>>, creator |-> <<>>, copyright |-> <<>>, description |-> <<>>,
     grid_width |-> 0, grid_height |-> 0,
     raw_cells |-> <<>>, word_defs |-> <<>>,
     across_clues |-> <<>>, down_clues |-> <<>>,
     in_metadata |-> FALSE, in_title |-> FALSE, in_creator |-> FALSE,
     in_copyright |-> FALSE, in_description |-> FALSE, in_clues |-> FALSE,
     current_clue_direction |-> None, in_clue |-> FALSE,
     current_clue_word_id |-> <<>>, current_clue_number |-> 0,
     current_clue_text |-> <<>>, in_clue_title |-> FALSE]

RECURSIVE grid_attrs(_, _, _)
\* parse_xml, lines 124-132: the width and height of <grid>
grid_attrs(attrs, i, st) ==
    IF i > Len(attrs) THEN st
    ELSE LET key == attrs[i][1]
             val == attrs[i][2]
         IN  grid_attrs(attrs, i + 1,
               IF key = "width"
               THEN [st EXCEPT !.grid_width = unwrap_or(parse_u8(val), 0)]
               ELSE IF key = "height"
               THEN [st EXCEPT !.grid_height = unwrap_or(parse_u8(val), 0)]
               ELSE st)

RECURSIVE clue_attrs(_, _, _)
\* parse_xml, lines 153-161: the word and number of <clue>
clue_attrs(attrs, i, st) ==
    IF i > Len(attrs) THEN st
    ELSE LET key == attrs[i][1]
             val == attrs[i][2]
         IN  clue_attrs(attrs, i + 1,
               IF key = "word" THEN [st EXCEPT !.current_clue_word_id = val]
               ELSE IF key = "number"
               THEN [st EXCEPT !.current_clue_number = unwrap_or(parse_u32(val), 0)]
               ELSE st)

\* parse_xml, lines 113-165: a Start or an Empty event
on_start(st, e, overflow_checks) ==
    LET word == parse_word_element(e, overflow_checks)
    IN  IF e.name = "metadata" THEN Ok([st EXCEPT !.in_metadata = TRUE])
        ELSE IF e.name = "title" /\ st.in_metadata THEN Ok([st EXCEPT !.in_title = TRUE])
        ELSE IF e.name = "creator" /\ st.in_metadata THEN Ok([st EXCEPT !.in_creator = TRUE])
        ELSE IF e.name = "copyright" /\ st.in_metadata
        THEN Ok([st EXCEPT !.in_copyright = TRUE])
        ELSE IF e.name = "description" /\ st.in_metadata
        THEN Ok([st EXCEPT !.in_description = TRUE])
        ELSE IF e.name = "grid" THEN Ok(grid_attrs(e.attrs, 1, st))
        ELSE IF e.name = "cell"
        THEN Ok([st EXCEPT !.raw_cells = Append(@, parse_cell_element(e).value)])
        ELSE IF e.name = "word"
        THEN (IF word.kind # "Ok" THEN word
              ELSE IF IsSome(word.value)
              THEN Ok([st EXCEPT !.word_defs = Append(@, Unwrap(word.value))])
              ELSE Ok(st))
        ELSE IF e.name = "clues"
        THEN Ok([st EXCEPT !.in_clues = TRUE, !.current_clue_direction = None])
        ELSE IF e.name = "title" /\ st.in_clues THEN Ok([st EXCEPT !.in_clue_title = TRUE])
        ELSE IF e.name = "clue" /\ st.in_clues
        THEN Ok(clue_attrs(e.attrs, 1,
                  [st EXCEPT !.in_clue = TRUE, !.current_clue_text = <<>>,
                             !.current_clue_word_id = <<>>,
                             !.current_clue_number = 0]))
        ELSE Ok(st)

\* parse_xml, lines 166-187: a Text event
on_text(st, e) ==
    LET text == unwrap_or(e.text, <<>>)
        lower == to_lowercase(text)
    IN  IF st.in_title /\ st.in_metadata THEN [st EXCEPT !.title = @ \o text]
        ELSE IF st.in_creator THEN [st EXCEPT !.creator = @ \o text]
        ELSE IF st.in_copyright THEN [st EXCEPT !.copyright = @ \o text]
        ELSE IF st.in_description THEN [st EXCEPT !.description = @ \o text]
        ELSE IF st.in_clue_title /\ st.in_clues
        THEN (IF contains(lower, S_ACROSS)
              THEN [st EXCEPT !.current_clue_direction = Some(TRUE)]
              ELSE IF contains(lower, S_DOWN)
              THEN [st EXCEPT !.current_clue_direction = Some(FALSE)]
              ELSE st)
        ELSE IF st.in_clue THEN [st EXCEPT !.current_clue_text = @ \o text]
        ELSE st

\* the End of a clue filing a clue without direction under across
on_end_clue_across_by_default(st) ==
    LET raw == RawClue(st.current_clue_word_id, st.current_clue_number,
                       strip_html_tags(st.current_clue_text))
        filed == IF st.in_clue /\ st.current_clue_number > 0
                 THEN (IF st.current_clue_direction = Some(FALSE)
                       THEN [st EXCEPT !.down_clues = Append(@, raw)]
                       ELSE [st EXCEPT !.across_clues = Append(@, raw)])
                 ELSE st
    IN  [filed EXCEPT !.in_clue = FALSE]

\* parse_xml, lines 202-216: </clue> files the clue under the direction in force
on_end_clue(st) ==
    LET raw == RawClue(st.current_clue_word_id, st.current_clue_number,
                       strip_html_tags(st.current_clue_text))
        filed == IF st.in_clue /\ st.current_clue_number > 0
                 THEN (IF st.current_clue_direction = Some(TRUE)
                       THEN [st EXCEPT !.across_clues = Append(@, raw)]
                       ELSE IF st.current_clue_direction = Some(FALSE)
                       THEN [st EXCEPT !.down_clues = Append(@, raw)]
                       ELSE st)
                 ELSE st
    IN  [filed EXCEPT !.in_clue = FALSE]

\* parse_xml, lines 188-219: an End event
on_end(st, e) ==
    IF e.name = "metadata" THEN [st EXCEPT !.in_metadata = FALSE]
    ELSE IF e.name = "title" /\ st.in_metadata THEN [st EXCEPT !.in_title = FALSE]
    ELSE IF e.name = "title" /\ st.in_clues THEN [st EXCEPT !.in_clue_title = FALSE]
    ELSE IF e.name = "creator" THEN [st EXCEPT !.in_creator = FALSE]
    ELSE IF e.name = "copyright" THEN [st EXCEPT !.in_copyright = FALSE]
    ELSE IF e.name = "description" THEN [st EXCEPT !.in_description = FALSE]
    ELSE IF e.name = "clues"
    THEN [st EXCEPT !.in_clues = FALSE, !.current_clue_direction = None]
    ELSE IF e.name = "clue" THEN on_end_clue(st)
    ELSE st

\* parse_xml, lines 276-286: the (solution, rebus_solution) of a solution attribute
cell_solution(solution) ==
    LET upper == to_uppercase(Unwrap(solution))
    IN  IF ~IsSome(solution) THEN [solution |-> None, rebus_solution |-> None]
        ELSE IF str_len(upper) > 1
        THEN [solution |-> Some(<<upper[1]>>), rebus_solution |-> Some(upper)]
        ELSE [solution |-> Some(upper), rebus_solution |-> None]

\* parse_xml, lines 288-297: the Letter cell of a raw cell
raw_letter_cell(cell) ==
    LetterCell(cell.number, cell_solution(cell.solution).solution,
               cell_solution(cell.solution).rebus_solution, None,
               cell.is_circled, FALSE, FALSE)

RECURSIVE place_cells(_, _, _, _, _)
\* parse_xml, lines 253-299: the raw cells written into the grid, in order
place_cells(raw_cells, i, w, h, acc) ==
    IF i > Len(raw_cells) THEN acc
    ELSE LET cell == raw_cells[i]
             col == saturating_sub(cell.x, 1)
             row == saturating_sub(cell.y, 1)
         IN  place_cells(raw_cells, i + 1, w, h,
               IF row >= h \/ col >= w THEN acc
               ELSE IF cell.is_block
               THEN [acc EXCEPT !.grid[row + 1][col + 1] = BlackCell]
               ELSE [grid |-> [acc.grid EXCEPT ![row + 1][col + 1] = raw_letter_cell(cell)],
                     has_solution |-> acc.has_solution \/ IsSome(cell.solution)])

\* parse_xml, lines 236-251: h rows of w Letter cells that carry nothing
empty_grid(w, h) ==
    Repeat(Repeat(LetterCell(None, None, None, None, FALSE, FALSE, FALSE), w), h)

RECURSIVE word_map_get(_, _, _)
\* word_map.get(id): collecting into the HashMap keeps the last word of an id
word_map_get(word_defs, i, id) ==
    IF i = 0 THEN None
    ELSE IF word_defs[i].id = id THEN Some(word_defs[i])
    ELSE word_map_get(word_defs, i - 1, id)

RECURSIVE build_clues_from_raw_loop(_, _, _, _)
build_clues_from_raw_loop(raw_clues, i, word_defs, clues) ==
    IF i > Len(raw_clues) THEN clues
    ELSE LET raw == raw_clues[i]
             word == word_map_get(word_defs, Len(word_defs), raw.word_id)
         IN  build_clues_from_raw_loop(raw_clues, i + 1, word_defs,
               IF IsSome(word)
               THEN Append(clues, Clue(raw.number, raw.text, Unwrap(word).start_row,
                                       Unwrap(word).start_col, Unwrap(word).length))
               ELSE clues)

\* build_clues_from_raw: the clues whose word is defined, in order
build_clues_from_raw(raw_clues, word_defs) ==
    Ok(build_clues_from_raw_loop(raw_clues, 1, word_defs, <<>>))

\* parse_xml, lines 226-323: after Eof
finish(st) ==
    LET w == st.grid_width
        h == st.grid_height
        placed == place_cells(st.raw_cells, 1, w, h,
                    [grid |-> empty_grid(w, h), has_solution |-> FALSE])
        final_across == build_clues_from_raw(st.across_clues, st.word_defs)
        final_down == build_clues_from_raw(st.down_clues, st.word_defs)
    IN  IF st.grid_width = 0 \/ st.grid_height = 0
        THEN Err(InvalidDimensions(st.grid_width, st.grid_height))
        ELSE Ok([title |-> st.title, author |-> st.creator,
                 copyright |-> st.copyright, notes |-> st.description,
                 width |-> st.grid_width, height |-> st.grid_height,
                 grid |-> placed.grid,
                 clues |-> [across |-> final_across.value,
                            down |-> final_down.value],
                 has_solution |-> placed.has_solution, is_scrambled |-> FALSE])

RECURSIVE parse_xml_loop(_, _, _, _)
\* the reader loop of parse_xml from event pos on, and what follows it
parse_xml_loop(events, pos, st, overflow_checks) ==
    IF pos > Len(events) THEN finish(st)
    ELSE LET e == events[pos]
             r == on_start(st, e, overflow_checks)
         IN  IF e.type \in {"Start", "Empty"}
             THEN (IF r.kind = "Ok"
                   THEN parse_xml_loop(events, pos + 1, r.value, overflow_checks)
                   ELSE r)
             ELSE IF e.type = "Text"
             THEN parse_xml_loop(events, pos + 1, on_text(st, e), overflow_checks)
             ELSE IF e.type = "End"
             THEN parse_xml_loop(events, pos + 1, on_end(st, e), overflow_checks)
             ELSE IF e.type = "Error" THEN Err(XmlError(<<"XML parse error">>))
             ELSE parse_xml_loop(events, pos + 1, st, overflow_checks)

\* parse_xml as a function of the events of the XML
parse_xml(events, overflow_checks) ==
    parse_xml_loop(events, 1, JpzLocals, overflow_checks)

----------------------------------------------------------------------------
(* Archive/XML inputs *)

RECURSIVE digits(_)
\* the decimal text of a natural number
digits(n) == IF n < 10 THEN <<48 + n>> ELSE digits(n \div 10) \o <<48 + (n % 10)>>

\* "a-b"
range_text(a, b) == digits(a) \o <<C_DASH>> \o digits(b)

\* "<?xm", the first bytes of an XML document
XML_HEAD == <<60, 63, 120, 109>>

\* bare XML
xml_input(events) == [head |-> XML_HEAD, archive |-> None, events |-> events]

\* a zip archive; read as XML, which the decoder never does, it would fail
zip_input(archive) ==
    [head |-> ZIP_MAGIC, archive |-> Some(archive), events |-> <<ErrorEvent>>]

\* <grid width="w" height="h">
grid_event(w, h) ==
    StartEvent("grid", <<<<"width", digits(w)>>, <<"height", digits(h)>>>>)

\* the <cell/> an exporter writes for the cell of flat index idx
std_cell(w, h, bytes, idx) ==
    LET at == <<<<"x", digits((idx % w) + 1)>>, <<"y", digits((idx \div w) + 1)>>>>
    IN  IF At(bytes, idx) = B_DOT
        THEN EmptyEvent("cell", at \o <<<<"type", S_BLOCK>>>>)
        ELSE IF std_number(w, h, bytes, idx) > 0
        THEN EmptyEvent("cell", at \o <<<<"solution", <<At(bytes, idx)>>>>,
                                        <<"number", digits(std_number(w, h, bytes, idx))>>>>)
        ELSE EmptyEvent("cell", at \o <<<<"solution", <<At(bytes, idx)>>>>>>)

\* the flat indexes where a word of the direction starts, in scan order
std_starts(w, h, bytes, across) ==
    SelectSeq([i \in 1..(w * h) |-> i - 1],
       LAMBDA i : IF across THEN is_across_start(bytes, w, h, i \div w, i % w)
                  ELSE is_down_start(bytes, w, h, i \div w, i % w))

\* the id of the word of a direction that starts at flat index idx
std_word_id(idx, across) == (IF across THEN <<65>> ELSE <<68>>) \o digits(idx)

\* the <word/> of the word of a direction that starts at flat index idx
std_word(w, h, bytes, idx, across) ==
    LET row == idx \div w
        col == idx % w
    IN  IF across
        THEN EmptyEvent("word",
               <<<<"id", std_word_id(idx, across)>>,
                 <<"x", range_text(col + 1, col + word_length_across(bytes, w, row, col))>>,
                 <<"y", digits(row + 1)>>>>)
        ELSE EmptyEvent("word",
               <<<<"id", std_word_id(idx, across)>>,
                 <<"x", digits(col + 1)>>,
                 <<"y", range_text(row + 1, row + word_length_down(bytes, w, h, row, col))>>>>)

\* <clue word=".." number="..">text</clue>
clue_events(word_id, number, text) ==
    <<StartEvent("clue", <<<<"word", word_id>>, <<"number", number>>>>),
      TextEvent(Some(text)), EndEvent("clue")>>

\* <clues><title><b>heading</b></title> clues </clues>
clues_events(heading, clues) ==
    <<StartEvent("clues", <<>>), StartEvent("title", <<>>), StartEvent("b", <<>>),
      TextEvent(Some(heading)), EndEvent("b"), EndEvent("title")>>
    \o clues \o <<EndEvent("clues")>>

\* the clues section of one direction of an exported file
std_clues_events(w, h, bytes, across) ==
    LET starts == std_starts(w, h, bytes, across)
    IN  clues_events(IF across THEN <<65>> \o Tail(S_ACROSS) ELSE <<68>> \o Tail(S_DOWN),
          Concat([k \in 1..Len(starts) |->
             clue_events(std_word_id(starts[k], across),
                         digits(std_number(w, h, bytes, starts[k])), <<96 + k>>)]))

\* <metadata><title>T</title><creator>C</creator></metadata>
std_metadata ==
    <<StartEvent("metadata", <<>>), StartEvent("title", <<>>), TextEvent(Some(<<84>>)),
      EndEvent("title"), StartEvent("creator", <<>>), TextEvent(Some(<<67>>)),
      EndEvent("creator"), EndEvent("metadata")>>

\* the file an exporter writes for a black/white pattern
std_jpz(w, h, mask) ==
    LET bytes == mask_bytes(mask)
    IN  xml_input(
          <<OtherEvent, StartEvent("rectangular-puzzle", <<>>)>>
          \o std_metadata
          \o <<StartEvent("crossword", <<>>), grid_event(w, h)>>
          \o [i \in 1..(w * h) |-> std_cell(w, h, bytes, i - 1)]
          \o <<EndEvent("grid")>>
          \o [k \in 1..Len(std_starts(w, h, bytes, TRUE)) |->
                std_word(w, h, bytes, std_starts(w, h, bytes, TRUE)[k], TRUE)]
          \o [k \in 1..Len(std_starts(w, h, bytes, FALSE)) |->
                std_word(w, h, bytes, std_starts(w, h, bytes, FALSE)[k], FALSE)]
          \o std_clues_events(w, h, bytes, TRUE)
          \o std_clues_events(w, h, bytes, FALSE)
          \o <<EndEvent("crossword"), EndEvent("rectangular-puzzle")>>)

\* the most cells of an exported pattern
MaxXmlCells == 6

\* every black/white pattern of the enumerated sizes of MaxXmlCells cells at most
JpzStandardInputs ==
    UNION { { std_jpz(d[1], d[2], mask) : mask \in [1..(d[1] * d[2]) -> BOOLEAN] }
            : d \in {e \in Dims : e[1] * e[2] <= MaxXmlCells} }

\* an attribute list from optional attributes: those that are not None
attrs_of(opts) ==
    LET given == SelectSeq(opts, LAMBDA o : o[2] # None)
    IN  [i \in 1..Len(given) |-> <<given[i][1], given[i][2][1]>>]

\* a 2x2 grid with one <cell/> of every attribute combination, and after it
\* either nothing or a block written over the cell at (1, 1)
JpzCellInputs ==
    { xml_input(<<grid_event(2, 2),
                  EmptyEvent("cell", attrs_of(<<<<"x", Some(x)>>, <<"y", Some(y)>>,
                      <<"type", type>>, <<"solution", solution>>,
                      <<"number", number>>, <<"background-shape", shape>>>>))>>
                \o again)
      : x \in {<<48>>, <<49>>, <<51>>}, y \in {<<49>>, <<50>>},
        type \in {None, Some(S_BLOCK), Some(<<118, 111, 105, 100>>)},
        solution \in {None, Some(<<97>>), Some(<<97, 98>>), Some(<<233>>), Some(<<>>)},
        number \in {None, Some(<<49>>), Some(<<48>>), Some(<<120>>)},
        shape \in {None, Some(S_CIRCLE)},
        again \in {<<>>, <<EmptyEvent("cell", <<<<"x", <<49>>>>, <<"y", <<49>>>>,
                                                <<"type", S_BLOCK>>>>)>>} }

\* the x attributes tried on a <word/>
WordXTexts ==
    { range_text(1, 3), range_text(1, 2), range_text(3, 1), range_text(2, 1),
      range_text(1, 256), range_text(1, 257), range_text(0, 2), range_text(2, 5),
      digits(1), <<>>, <<49, 45, 50, 45, 51>>, <<97, 45, 50>>, <<49, 45, 98>> }

\* the y attributes tried on a <word/>
WordYTexts == { digits(1), digits(0), digits(3), <<>>, range_text(1, 2), <<120>> }

\* a 3x2 grid, with or without a block at (2, 1), one <word/> of every x, y
\* and id, and one clue of each direction heading that refers to word "1"
JpzWordInputs ==
    { xml_input(<<grid_event(3, 2)>> \o block
                \o <<EmptyEvent("word", <<<<"id", id>>, <<"x", x>>, <<"y", y>>>>)>>
                \o clues_events(heading, clue_events(<<49>>, <<49>>, <<97>>)))
      : x \in WordXTexts, y \in WordYTexts, id \in {<<>>, <<49>>},
        block \in {<<>>, <<EmptyEvent("cell", <<<<"x", <<50>>>>, <<"y", <<49>>>>,
                                                <<"type", S_BLOCK>>>>)>>},
        heading \in {<<65>> \o Tail(S_ACROSS), <<68, 79, 87, 78>>} }

\* the events the sequences of JpzEventInputs are made of
EventChoices ==
    { StartEvent("metadata", <<>>), EndEvent("metadata"), StartEvent("title", <<>>),
      EmptyEvent("title", <<>>), EndEvent("title"), StartEvent("clues", <<>>),
      TextEvent(Some(S_ACROSS)), TextEvent(None), ErrorEvent }

\* the longest sequence of JpzEventInputs
MaxEvents == 3

\* every sequence of MaxEvents events at most, then a 1x1 grid, a word and a clue
JpzEventInputs ==
    UNION { { xml_input(seq \o <<grid_event(1, 1),
                                 EmptyEvent("word", <<<<"id", <<49>>>>,
                                    <<"x", range_text(1, 1)>>, <<"y", digits(1)>>>>)>>
                        \o clue_events(<<49>>, <<49>>, <<60, 98, 62, 97>>))
              : seq \in [1..n -> EventChoices] }
            : n \in 0..MaxEvents }

\* a 1x1 puzzle
SmallXml == <<grid_event(1, 1), EmptyEvent("cell", <<<<"x", <<49>>>>, <<"y", <<49>>>>>>)>>

\* an entry of a zip archive
zip_entry(readable, inflates, events) ==
    [readable |-> readable, inflates |-> inflates, events |-> events]

\* archives that do not open, hold no file, hold a first file that does not
\* open or does not inflate, and archives whose first file is the puzzle
JpzZipInputs ==
    { zip_input([opens |-> FALSE, entries |-> <<>>]),
      zip_input([opens |-> TRUE, entries |-> <<>>]),
      zip_input([opens |-> TRUE, entries |-> <<zip_entry(FALSE, FALSE, <<>>)>>]),
      zip_input([opens |-> TRUE, entries |-> <<zip_entry(TRUE, FALSE, <<>>)>>]),
      zip_input([opens |-> TRUE, entries |-> <<zip_entry(TRUE, TRUE, SmallXml)>>]),
      zip_input([opens |-> TRUE, entries |-> <<zip_entry(TRUE, TRUE, SmallXml),
                                               zip_entry(TRUE, TRUE, <<ErrorEvent>>)>>]),
      xml_input(<<>>) }

\* the most cells of the puzzles that are also given inside an archive
MaxZipCells == 4

\* an archive whose first file has the content events
zip_of(events) == zip_input([opens |-> TRUE, entries |-> <<zip_entry(TRUE, TRUE, events)>>])

\* the standard puzzles of MaxZipCells cells at most, each as the first file
\* of an archive
JpzZippedInputs ==
    UNION { { zip_of(std_jpz(d[1], d[2], mask).events)
              : mask \in [1..(d[1] * d[2]) -> BOOLEAN] }
            : d \in {e \in Dims : e[1] * e[2] <= MaxZipCells} }

\* "PK\x03\x05", "PK\x03", "\x00PK\x03\x04" and the empty buffer
NearMagicHeads == {<<80, 75, 3, 5>>, <<80, 75, 3>>, <<0, 80, 75, 3, 4>>, <<>>}

\* buffers that do not begin with the magic bytes although the zip reader
\* would find an archive in them
JpzNearMagicInputs ==
    { [head |-> head,
       archive |-> Some([opens |-> TRUE,
                         entries |-> <<zip_entry(TRUE, TRUE, <<grid_event(2, 1)>>)>>]),
       events |-> events]
      : head \in NearMagicHeads,
        events \in {<<>>, <<ErrorEvent>>, <<TextEvent(Some(<<80, 75>>))>> \o SmallXml} }

\* <title>heading</title>, or nothing for None
title_events(heading) ==
    IF heading = None THEN <<>>
    ELSE <<StartEvent("title", <<>>), TextEvent(heading), EndEvent("title")>>

\* the headings tried in a clues block: none, "Across", "DOWN", "Notes"
ClueHeadings ==
    { None, Some(<<65>> \o Tail(S_ACROSS)), Some(<<68, 79, 87, 78>>),
      Some(<<78, 111, 116, 101, 115>>) }

\* the attributes tried on a <clue>: word "1" number "1", an unknown word
\* "9", number "0", no number, number "x"
ClueAttrs ==
    { <<<<"word", <<49>>>>, <<"number", <<49>>>>>>,
      <<<<"word", <<57>>>>, <<"number", <<50>>>>>>,
      <<<<"word", <<49>>>>, <<"number", <<48>>>>>>,
      <<<<"word", <<49>>>>>>,
      <<<<"word", <<49>>>>, <<"number", <<120>>>>>> }

\* a 2x1 grid, the word "1", and a clues block of two clues "a" and "b",
\* each after one of the headings, with or without a new clues block
\* between them
JpzClueInputs ==
    { xml_input(<<grid_event(2, 1),
                  EmptyEvent("word", <<<<"id", <<49>>>>, <<"x", range_text(1, 2)>>,
                                       <<"y", digits(1)>>>>),
                  StartEvent("clues", <<>>)>>
                \o title_events(h1)
                \o <<StartEvent("clue", a1), TextEvent(Some(<<97>>)), EndEvent("clue")>>
                \o (IF again THEN <<EndEvent("clues"), StartEvent("clues", <<>>)>> ELSE <<>>)
                \o title_events(h2)
                \o <<StartEvent("clue", a2), TextEvent(Some(<<98>>)), EndEvent("clue")>>
                \o <<EndEvent("clues")>>)
      : h1 \in ClueHeadings, h2 \in ClueHeadings, a1 \in ClueAttrs, a2 \in ClueAttrs,
        again \in BOOLEAN }

\* what may stand where a clues block has its heading: nothing, the title
\* "Across", "DOWN" or "Notes", or an empty title written <title/>
HeadingChoices ==
    { title_events(h) : h \in ClueHeadings } \cup { <<EmptyEvent("title", <<>>)>> }

\* the metadata tried: none, one with the title "Down", an empty <metadata/>
MetadataChoices ==
    { <<>>,
      <<StartEvent("metadata", <<>>)>> \o title_events(Some(<<68>> \o Tail(S_DOWN)))
        \o <<EndEvent("metadata")>>,
      <<EmptyEvent("metadata", <<>>)>> }

\* a 2x1 grid, the word "1", and a clues block of the clues 1 "Down" and 2
\* "b", each after one of the headings, with or without a new clues block
\* between them, and the metadata before the block or between the first
\* heading and its clue
JpzHeadingInputs ==
    { xml_input(<<grid_event(2, 1),
                  EmptyEvent("word", <<<<"id", <<49>>>>, <<"x", range_text(1, 2)>>,
                                       <<"y", digits(1)>>>>)>>
                \o (IF inside THEN <<>> ELSE metadata)
                \o <<StartEvent("clues", <<>>)>> \o h1
                \o (IF inside THEN metadata ELSE <<>>)
                \o clue_events(<<49>>, <<49>>, <<68>> \o Tail(S_DOWN))
                \o (IF again THEN <<EndEvent("clues"), StartEvent("clues", <<>>)>> ELSE <<>>)
                \o h2 \o clue_events(<<49>>, <<50>>, <<98>>)
                \o <<EndEvent("clues")>>)
      : h1 \in HeadingChoices, h2 \in HeadingChoices, metadata \in MetadataChoices,
        inside \in BOOLEAN, again \in BOOLEAN }

JpzInputs ==
    JpzClueInputs \cup JpzHeadingInputs \cup JpzStandardInputs \cup JpzCellInputs \cup JpzWordInputs \cup JpzEventInputs
      \cup JpzZipInputs \cup JpzZippedInputs \cup JpzNearMagicInputs

----------------------------------------------------------------------------
(* The Archive/XML decoder as a state machine: jpz.xml is the XML being     *)
(* read, jpz.pos the event read next, jpz.st the locals of parse_xml, and   *)
(* jpz.overflow_checks whether the build checks arithmetic overflow.        *)

InitJpz ==
    /\ call = NoCall
    /\ fmt = "jpz"
    /\ input \in JpzInputs
    /\ pc = "extract"
    /\ puz = NoLocals
    /\ ipuz = NoLocals
    /\ \E overflow_checks \in BOOLEAN :
          jpz = [xml |-> <<>>, pos |-> 1, st |-> JpzLocals,
                 overflow_checks |-> overflow_checks]
    /\ result = NoResult

\* the reader has an event of one of the types to hand
Reading(types) ==
    /\ fmt = "jpz" /\ pc = "read"
    /\ jpz.pos <= Len(jpz.xml)
    /\ jpz.xml[jpz.pos].type \in types

\* parse, lines 19-25: unzip when the data is a zip archive
JpzExtract ==
    /\ fmt = "jpz" /\ pc = "extract"
    /\ LET x == xml_data(input)
       IN  IF x.kind = "Ok"
           THEN /\ jpz' = [jpz EXCEPT !.xml = x.value]
                /\ pc' = "read"
                /\ UNCHANGED result
           ELSE /\ result' = x
                /\ pc' = "done"
                /\ UNCHANGED jpz
    /\ UNCHANGED <<call, fmt, input, puz, ipuz>>

\* parse_xml, lines 113-165: Start and Empty events share one arm
JpzStartOrEmpty ==
    /\ Reading({"Start", "Empty"})
    /\ LET r == on_start(jpz.st, jpz.xml[jpz.pos], jpz.overflow_checks)
       IN  IF r.kind = "Ok"
           THEN /\ jpz' = [jpz EXCEPT !.st = r.value, !.pos = @ + 1]
                /\ UNCHANGED <<pc, result>>
           ELSE /\ result' = r
                /\ pc' = "done"
                /\ UNCHANGED jpz
    /\ UNCHANGED <<call, fmt, input, puz, ipuz>>

\* parse_xml, lines 166-187
JpzText ==
    /\ Reading({"Text"})
    /\ jpz' = [jpz EXCEPT !.st = on_text(jpz.st, jpz.xml[jpz.pos]), !.pos = @ + 1]
    /\ UNCHANGED <<call, fmt, input, pc, puz, ipuz, result>>

\* parse_xml, lines 188-219
JpzEnd ==
    /\ Reading({"End"})
    /\ jpz' = [jpz EXCEPT !.st = on_end(jpz.st, jpz.xml[jpz.pos]), !.pos = @ + 1]
    /\ UNCHANGED <<call, fmt, input, pc, puz, ipuz, result>>

\* parse_xml, line 220: the reader fails
JpzError ==
    /\ Reading({"Error"})
    /\ result' = Err(XmlError(<<"XML parse error">>))
    /\ pc' = "done"
    /\ UNCHANGED <<call, fmt, input, puz, ipuz, jpz>>

\* parse_xml, line 221: every other event is passed over
JpzOther ==
    /\ Reading({"Other"})
    /\ jpz' = [jpz EXCEPT !.pos = @ + 1]
    /\ UNCHANGED <<call, fmt, input, pc, puz, ipuz, result>>

\* parse_xml, lines 112 and 226-323: Eof ends the loop, the Puzzle is built
JpzEof ==
    /\ fmt = "jpz" /\ pc = "read"
    /\ jpz.pos > Len(jpz.xml)
    /\ result' = finish(jpz.st)
    /\ pc' = "done"
    /\ UNCHANGED <<call, fmt, input, puz, ipuz, jpz>>

NextJpz ==
    JpzExtract \/ JpzStartOrEmpty \/ JpzText \/ JpzEnd \/ JpzError \/ JpzOther
      \/ JpzEof

SpecJpz == InitJpz /\ [][NextJpz]_vars

----------------------------------------------------------------------------
(* Any of the three decoders *)

Init == InitPuz \/ InitIpuz \/ InitJpz

Next == NextPuz \/ NextIpuz \/ NextJpz

Spec == Init /\ [][Next]_vars

-----------------------------------------------------------------------------
(* The entry point, lib.rs: parse(data, extension) hands the buffer to the  *)
(* decoder the extension names.  The buffer of a call is given with what    *)
(* each decoder's reader makes of it: the bytes themselves, the IpuzFile    *)
(* serde_json deserializes from them, and the container of the XML events.  *)

\* "puz", "ipuz", "jpz", "xml"
S_PUZ == <<112, 117, 122>>

S_IPUZ == <<105, 112, 117, 122>>

S_JPZ == <<106, 112, 122>>

S_XML == <<120, 109, 108>>

\* the match of parse taken on the extension as given
decoder_of_exact_case(extension) ==
    IF extension = S_PUZ THEN Ok("puz")
    ELSE IF extension = S_IPUZ THEN Ok("ipuz")
    ELSE IF extension = S_JPZ \/ extension = S_XML THEN Ok("jpz")
    ELSE Err(UnsupportedFormat(extension))

\* parse, lines 11-18: the decoder the match on the lowercased extension
\* selects, or the UnsupportedFormat of the arm that matches everything else
decoder_of(extension) ==
    LET ext == to_lowercase(extension)
    IN  IF ext = S_PUZ THEN Ok("puz")
        ELSE IF ext = S_IPUZ THEN Ok("ipuz")
        ELSE IF ext = S_JPZ \/ ext = S_XML THEN Ok("jpz")
        ELSE Err(UnsupportedFormat(ext))

\* what the decoder of a format reads of a buffer
view(data, decoder) ==
    IF decoder = "puz" THEN data.bytes
    ELSE IF decoder = "ipuz" THEN data.json
    ELSE data.xml

\* a buffer that is no JSON and no archive, holding no markup: one text run
plain_file(bytes, text) ==
    [bytes |-> bytes,
     json |-> [valid_json |-> FALSE, file |-> None],
     xml |-> [head |-> Slice(bytes, 0, 4), archive |-> None,
              events |-> <<TextEvent(text)>>]]

\* the fixture of the binary decoder; its "ACROSS&DOWN" does not unescape
PuzFile == plain_file(TestPuz, None)

\* a 2x2 binary puzzle with the rebus table "0:AB;" and a rebus grid; its
\* "ACROSS&DOWN" does not unescape either
RebusPuzFile ==
    plain_file(mk_header(MAGIC, 2, 2, 0, 0) \o <<65, B_DOT, 66, 67>>
                 \o <<B_DASH, B_DOT, B_DASH, B_DASH>> \o string_table(0)
                 \o section(EXT_RTBL, <<48, 58, 65, 66, 59>>)
                 \o section(EXT_GRBS, <<1, 1, 2, 0>>),
               None)

\* {"kind":["http://ipuz.org/crossword#1"],"dimensions":{"width":2,"height":1},"puzzle":[[1,0]],"clues":{"Across":[[1,"a"]]}}
IpuzFileBytes ==
    <<123, 34, 107, 105, 110, 100, 34, 58, 91, 34, 104, 116, 116, 112, 58,
      47, 47, 105, 112, 117, 122, 46, 111, 114, 103, 47, 99, 114, 111, 115,
      115, 119, 111, 114, 100, 35, 49, 34, 93, 44, 34, 100, 105, 109, 101,
      110, 115, 105, 111, 110, 115, 34, 58, 123, 34, 119, 105, 100, 116, 104,
      34, 58, 50, 44, 34, 104, 101, 105, 103, 104, 116, 34, 58, 49, 125, 44,
      34, 112, 117, 122, 122, 108, 101, 34, 58, 91, 91, 49, 44, 48, 93, 93,
      44, 34, 99, 108, 117, 101, 115, 34, 58, 123, 34, 65, 99, 114, 111, 115,
      115, 34, 58, 91, 91, 49, 44, 34, 97, 34, 93, 93, 125, 125>>

IpuzFile ==
    [bytes |-> IpuzFileBytes,
     json |-> ipuz_file(Some([width |-> 2, height |-> 1]),
                        Some(<<<<JNum(Some(1)), JNum(Some(0))>>>>), None,
                        Some([across |-> <<clue_entry(1, <<97>>)>>, down |-> <<>>])),
     xml |-> [head |-> Slice(IpuzFileBytes, 0, 4), archive |-> None,
              events |-> <<TextEvent(Some(IpuzFileBytes))>>]]

\* <crossword><grid width="1" height="1"/><!--c-->t</crossword>
XmlFileBytes ==
    <<60, 99, 114, 111, 115, 115, 119, 111, 114, 100, 62, 60, 103, 114, 105,
      100, 32, 119, 105, 100, 116, 104, 61, 34, 49, 34, 32, 104, 101, 105,
      103, 104, 116, 61, 34, 49, 34, 47, 62, 60, 33, 45, 45, 99, 45, 45, 62,
      116, 60, 47, 99, 114, 111, 115, 115, 119, 111, 114, 100, 62>>

XmlFile ==
    [bytes |-> XmlFileBytes,
     json |-> [valid_json |-> FALSE, file |-> None],
     xml |-> [head |-> Slice(XmlFileBytes, 0, 4), archive |-> None,
              events |-> <<StartEvent("crossword", <<>>),
                           EmptyEvent("grid", <<<<"width", <<49>>>>, <<"height", <<49>>>>>>),
                           OtherEvent, TextEvent(Some(<<116>>)),
                           EndEvent("crossword")>>]]

\* <a></b>: the end tag does not match
BadXmlFileBytes == <<60, 97, 62, 60, 47, 98, 62>>

BadXmlFile ==
    [bytes |-> BadXmlFileBytes,
     json |-> [valid_json |-> FALSE, file |-> None],
     xml |-> [head |-> Slice(BadXmlFileBytes, 0, 4), archive |-> None,
              events |-> <<StartEvent("a", <<>>), ErrorEvent>>]]

\* the four bytes of the zip magic and nothing else: no archive opens
BadZipFile ==
    [bytes |-> ZIP_MAGIC,
     json |-> [valid_json |-> FALSE, file |-> None],
     xml |-> [head |-> ZIP_MAGIC,
              archive |-> Some([opens |-> FALSE, entries |-> <<>>]),
              events |-> <<ErrorEvent>>]]

\* "data"
DataFile == plain_file(<<100, 97, 116, 97>>, Some(<<100, 97, 116, 97>>))

Files == {PuzFile, RebusPuzFile, IpuzFile, XmlFile, BadXmlFile, BadZipFile, DataFile}

\* the extensions of a call: every format in three spellings, and pdf in
\* three spellings, the empty extension and "puzz", which name none
Hints ==
    { <<112, 117, 122>>, <<80, 85, 90>>, <<80, 117, 122>>,
      <<105, 112, 117, 122>>, <<73, 80, 85, 90>>, <<105, 80, 117, 122>>,
      <<106, 112, 122>>, <<74, 80, 90>>, <<74, 112, 122>>,
      <<120, 109, 108>>, <<88, 77, 76>>, <<120, 77, 108>>,
      <<112, 100, 102>>, <<80, 68, 70>>, <<80, 100, 102>>,
      <<>>, <<112, 117, 122, 122>> }

InitDispatch ==
    /\ call \in [data : Files, extension : Hints]
    /\ fmt = "none"
    /\ input = <<>>
    /\ pc = "dispatch"
    /\ puz = NoLocals
    /\ ipuz = NoLocals
    /\ jpz = NoLocals
    /\ result = NoResult

\* parse, lines 11-18: enter the decoder, or return the error
Dispatch ==
    /\ pc = "dispatch"
    /\ LET d == decoder_of(call.extension)
       IN  IF d.kind = "Ok"
           THEN /\ fmt' = d.value
                /\ input' = view(call.data, d.value)
                /\ pc' = IF d.value = "puz" THEN "header"
                         ELSE IF d.value = "ipuz" THEN "deserialize"
                         ELSE "extract"
                /\ puz' = IF d.value = "puz"
                          THEN [hd |-> None, st |-> None, extensions |-> None, walk |-> None]
                          ELSE NoLocals
                /\ ipuz' = IF d.value = "ipuz" THEN [w |-> 0, h |-> 0, grid |-> <<>>]
                           ELSE NoLocals
                /\ \E overflow_checks \in BOOLEAN :
                      jpz' = IF d.value = "jpz"
                             THEN [xml |-> <<>>, pos |-> 1, st |-> JpzLocals,
                                   overflow_checks |-> overflow_checks]
                             ELSE NoLocals
                /\ UNCHANGED result
           ELSE /\ result' = d
                /\ pc' = "done"
                /\ UNCHANGED <<fmt, input, puz, ipuz, jpz>>
    /\ UNCHANGED call

NextDispatch == Dispatch \/ NextPuz \/ NextIpuz \/ NextJpz

SpecDispatch == InitDispatch /\ [][NextDispatch]_vars

----------------------------------------------------------------------------
(* Properties.  The predicates of this section are written from the         *)
(* statements they check, over the returned Puzzle and the input, and not   *)
(* with the operators of the decoders.                                      *)

Done == pc = "done"

Returned == Done /\ result.kind = "Ok"

Failed == Done /\ result.kind = "Err"

\* the returned Puzzle
P == result.value

\* the cell at 0-based (row, col) of a grid of rows
CellAt(g, row, col) == g[row + 1][col + 1]

\* black, or outside a w x h grid
BlackOrOff(g, w, h, row, col) ==
    \/ row < 0 \/ row >= h \/ col < 0 \/ col >= w
    \/ CellAt(g, row, col).kind = "Black"

\* present and not black
Playable(g, w, h, row, col) == ~BlackOrOff(g, w, h, row, col)

StartsAcross(g, w, h, row, col) ==
    /\ Playable(g, w, h, row, col)
    /\ BlackOrOff(g, w, h, row, col - 1)
    /\ Playable(g, w, h, row, col + 1)

StartsDown(g, w, h, row, col) ==
    /\ Playable(g, w, h, row, col)
    /\ BlackOrOff(g, w, h, row - 1, col)
    /\ Playable(g, w, h, row + 1, col)

StartsWord(g, w, h, row, col) ==
    StartsAcross(g, w, h, row, col) \/ StartsDown(g, w, h, row, col)

\* the 0-based positions of a w x h grid
Positions(w, h) == (0..(h - 1)) \X (0..(w - 1))

\* how many word starts lie at or before (row, col) in row-major order
StartRank(g, w, h, row, col) ==
    Cardinality({q \in Positions(w, h) :
                   /\ q[1] * w + q[2] <= row * w + col
                   /\ StartsWord(g, w, h, q[1], q[2])})

\* the number the scan rule gives the cell at (row, col)
ScanNumber(g, w, h, row, col) ==
    IF StartsWord(g, w, h, row, col)
    THEN Some(StartRank(g, w, h, row, col)) ELSE None

\* C1: the binary decoder returns a Puzzle or a ParseError for every buffer
\* and never aborts on an index or slice out of bounds.
C1_NeverAborts == (fmt = "puz") => result.kind # "Panic"

\* the 12 signature bytes at offset 0x02 of a buffer of at least 0x34 bytes
SignatureOk(data) == SubSeq(data, 3, 14) = MAGIC

\* C2: the checks come in the order length, signature, dimensions, grids;
\* the failure is the one of the first check that fails, and no Puzzle is
\* returned when a check fails.
C2_CheckOrder ==
    (fmt = "puz" /\ Done) =>
        LET n == Len(input)
            width == input[45]
            height == input[46]
        IN  IF n < 52 THEN Failed /\ result.error.variant = "FileTooShort"
            ELSE IF ~SignatureOk(input)
            THEN Failed /\ result.error.variant = "InvalidMagic"
            ELSE IF width = 0 \/ height = 0
            THEN Failed /\ result.error.variant = "InvalidDimensions"
            ELSE IF n < 52 + 2 * width * height
            THEN Failed /\ result.error.variant = "FileTooShort"
            ELSE TRUE

\* a 0x34-byte buffer with a wrong signature and width 0 gave InvalidMagic
C2_Witness ==
    /\ fmt = "puz" /\ Done
    /\ Len(input) = 52 /\ ~SignatureOk(input) /\ input[45] = 0
    /\ result = Err(InvalidMagic)

\* C3: a buffer shorter than 0x34 fails with FileTooShort{0x34, length}; one
\* with a valid signature and nonzero dimensions but shorter than
\* 0x34 + 2*width*height fails with FileTooShort{0x34 + 2*width*height, length}.
C3_LengthFailures ==
    (fmt = "puz" /\ Done) =>
        /\ Len(input) < 52 =>
              result = Err([variant |-> "FileTooShort", expected |-> 52,
                            actual |-> Len(input)])
        /\ (/\ Len(input) >= 52 /\ SignatureOk(input)
            /\ input[45] # 0 /\ input[46] # 0
            /\ Len(input) < 52 + 2 * input[45] * input[46]) =>
              result = Err([variant |-> "FileTooShort",
                            expected |-> 52 + 2 * input[45] * input[46],
                            actual |-> Len(input)])

\* both length failures happened: the grids of a 2x2 puzzle cut short
C3_Witness ==
    /\ fmt = "puz" /\ Done
    /\ Len(input) = 59 /\ SignatureOk(input) /\ input[45] = 2 /\ input[46] = 2
    /\ result = Err(FileTooShort(60, 59))

\* C4: in a Puzzle of the binary decoder a cell carries a number iff it
\* starts an across or a down word, and the numbers are 1, 2, 3, ... in
\* row-major order; every other cell has no number.
C4_Numbering ==
    (fmt = "puz" /\ Returned) =>
        \A q \in Positions(P.width, P.height) :
            CellAt(P.grid, q[1], q[2]).number
              = ScanNumber(P.grid, P.width, P.height, q[1], q[2])

\* CAT / .O. / DOG was numbered 1, 2, -, -, 3
C4_Witness ==
    /\ fmt = "puz" /\ Returned /\ input = TestPuz
    /\ CellAt(P.grid, 0, 0).number = Some(1)
    /\ CellAt(P.grid, 0, 1).number = Some(2)
    /\ CellAt(P.grid, 0, 2).number = None
    /\ CellAt(P.grid, 1, 1).number = None
    /\ CellAt(P.grid, 2, 0).number = Some(3)

RECURSIVE ClueSlots(_, _, _, _)
\* the clue slots from flat index idx on: <<row, col, "A" or "D">> for every
\* direction that starts at a cell, row-major, across before down
ClueSlots(g, w, h, idx) ==
    IF idx >= w * h THEN <<>>
    ELSE LET row == idx \div w
             col == idx % w
         IN  (IF StartsAcross(g, w, h, row, col) THEN <<<<row, col, "A">>>> ELSE <<>>)
             \o (IF StartsDown(g, w, h, row, col) THEN <<<<row, col, "D">>>> ELSE <<>>)
             \o ClueSlots(g, w, h, idx + 1)

\* the slots of one direction, in order
SlotsOf(slots, dir) == SelectSeq(slots, LAMBDA s : s[3] = dir)

\* how many of the first k slots have direction dir
CountDir(slots, k, dir) == Len(SlotsOf(SubSeq(slots, 1, k), dir))

\* the clue generated for the k-th slot
SlotClue(puzzle, slots, k) ==
    IF slots[k][3] = "A" THEN puzzle.clues.across[CountDir(slots, k, "A")]
    ELSE puzzle.clues.down[CountDir(slots, k, "D")]

\* C5: the clues of the binary decoder are generated in row-major order of the
\* word starts, across before down at one cell, and the k-th clue generated
\* carries the k-th string of the clue slice.
C5_ClueTextOrder ==
    (fmt = "puz" /\ Returned) =>
        LET slots == ClueSlots(P.grid, P.width, P.height, 0)
            texts == Unwrap(puz.st).clue_texts
        IN  /\ Len(P.clues.across) = Len(SlotsOf(slots, "A"))
            /\ Len(P.clues.down) = Len(SlotsOf(slots, "D"))
            /\ \A k \in 1..Len(slots) :
                  /\ SlotClue(P, slots, k).row = slots[k][1]
                  /\ SlotClue(P, slots, k).col = slots[k][2]
                  /\ k <= Len(texts) => SlotClue(P, slots, k).text = texts[k]

\* CAT / .O. / DOG gave 1-Across, 2-Down, 3-Across, each of length 3, with
\* the first, second and third clue string
C5_Witness ==
    /\ fmt = "puz" /\ Returned /\ input = TestPuz
    /\ Len(P.clues.across) = 2 /\ Len(P.clues.down) = 1
    /\ P.clues.across[1].number = 1 /\ P.clues.across[1].length = 3
    /\ P.clues.across[1].text = Unwrap(puz.st).clue_texts[1]
    /\ P.clues.down[1].number = 2 /\ P.clues.down[1].length = 3
    /\ P.clues.down[1].text = Unwrap(puz.st).clue_texts[2]
    /\ P.clues.across[2].number = 3 /\ P.clues.across[2].length = 3
    /\ P.clues.across[2].text = Unwrap(puz.st).clue_texts[3]
    /\ Unwrap(puz.st).clue_texts[1] # Unwrap(puz.st).clue_texts[2]

\* the positive integer a puzzle-array value gives its cell: the value itself
\* when it is a number, the "cell" member when it is an object
FileNumber(val) ==
    LET n == IF val.t = "Number" THEN as_u32(val.u64)
             ELSE IF val.t = "Object" /\ "cell" \in DOMAIN val.fields
                     /\ val.fields["cell"].t = "Number"
             THEN as_u32(val.fields["cell"].u64)
             ELSE None
    IN  IF n # None /\ n[1] > 0 THEN n ELSE None

\* the value the puzzle array of the input holds for 0-based (row, col)
PuzzleValue(row, col) == input.file.puzzle[1][row + 1][col + 1]

\* the numbers of the returned grid are those of the row-major scan
NumbersFollowScan ==
    \A q \in Positions(P.width, P.height) :
       CellAt(P.grid, q[1], q[2]).number
         = ScanNumber(P.grid, P.width, P.height, q[1], q[2])

AllClues ==
    {P.clues.across[i] : i \in 1..Len(P.clues.across)}
      \cup {P.clues.down[i] : i \in 1..Len(P.clues.down)}

\* the positions of the returned grid whose cell carries the number n
CellsNumbered(n) ==
    {q \in Positions(P.width, P.height) :
       CellAt(P.grid, q[1], q[2]).number = Some(n)}

\* C7: in every returned Puzzle every clue has a positive number, starts
\* inside the grid at a Letter cell that carries the clue's number, and no
\* other cell carries that number.
C7_CluesMatchOneCell ==
    Returned =>
       \A c \in AllClues :
          /\ c.number > 0
          /\ c.row < P.height /\ c.col < P.width
          /\ CellAt(P.grid, c.row, c.col).kind = "Letter"
          /\ CellsNumbered(c.number) = {<<c.row, c.col>>}

\* how many cells from (row, col) on, stepping by (dr, dc), are in the grid
\* and not black before the first that is not
Run(g, w, h, row, col, dr, dc) ==
    Cardinality({k \in 1..Max(w, h) :
                   \A j \in 0..(k - 1) : Playable(g, w, h, row + j * dr, col + j * dc)})

\* C8: in every returned Puzzle the length of an across clue is the number of
\* contiguous non-black cells rightward from its start, the length of a down
\* clue the number downward, and every length is from 1 to max(width, height).
C8_ClueLengths ==
    Returned =>
       /\ \A i \in 1..Len(P.clues.across) :
             LET c == P.clues.across[i]
             IN  /\ c.length = Run(P.grid, P.width, P.height, c.row, c.col, 0, 1)
                 /\ c.length >= 1 /\ c.length <= Max(P.width, P.height)
       /\ \A i \in 1..Len(P.clues.down) :
             LET c == P.clues.down[i]
             IN  /\ c.length = Run(P.grid, P.width, P.height, c.row, c.col, 1, 0)
                 /\ c.length >= 1 /\ c.length <= Max(P.width, P.height)

\* C9: in every returned Puzzle a Black cell has no number, no solution, no
\* rebus solution, no player value, and is not circled, marked incorrect or
\* revealed, whatever the source says for the cell.
C9_BlackCellsCarryNothing ==
    Returned =>
       \A q \in Positions(P.width, P.height) :
          LET cell == CellAt(P.grid, q[1], q[2])
          IN  cell.kind = "Black" =>
                 /\ cell.number = None /\ cell.solution = None
                 /\ cell.rebus_solution = None /\ cell.player_value = None
                 /\ ~cell.is_circled /\ ~cell.was_incorrect /\ ~cell.is_revealed

\* a binary file returned with a Black cell whose GEXT byte has the circle
\* bit, whose GRBS byte is set and whose state byte is a letter
C9_Witness ==
    /\ fmt = "puz" /\ Returned
    /\ \E idx \in 0..(P.width * P.height - 1) :
          /\ CellAt(P.grid, idx \div P.width, idx % P.width).kind = "Black"
          /\ At(input, HEADER_SIZE + idx) = B_DOT
          /\ At(input, HEADER_SIZE + P.width * P.height + idx) \in 65..122
          /\ idx < Len(puz.extensions[1].gext)
          /\ At(puz.extensions[1].gext, idx) \div GEXT_CIRCLED % 2 = 1
          /\ idx < Len(puz.extensions[1].grbs)
          /\ At(puz.extensions[1].grbs, idx) > 0

\* an XML file returned with a block that has a solution, a number and a circle
C9_XmlCase ==
    /\ fmt = "jpz" /\ Returned
    /\ \E i \in 1..Len(jpz.st.raw_cells) :
          LET raw == jpz.st.raw_cells[i]
          IN  /\ raw.is_block /\ raw.solution # None /\ raw.number # None
              /\ raw.is_circled
              /\ raw.x \in 1..P.width /\ raw.y \in 1..P.height
              /\ CellAt(P.grid, raw.y - 1, raw.x - 1).kind = "Black"

\* a JSON file returned with a block whose solution entry is a letter
C9_JsonCase ==
    /\ fmt = "ipuz" /\ Returned
    /\ \E q \in Positions(P.width, P.height) :
          /\ CellAt(P.grid, q[1], q[2]).kind = "Black"
          /\ input.file.solution # None
          /\ input.file.solution[1][q[1] + 1][q[2] + 1] = JStr(<<97>>)

\* C10: every successful decode gives a width and a height of at least 1, a
\* grid of exactly height rows, and rows of exactly width cells.
C10_GridShape ==
    Returned =>
       /\ P.width >= 1 /\ P.height >= 1
       /\ Len(P.grid) = P.height
       /\ \A r \in 1..Len(P.grid) : Len(P.grid[r]) = P.width

\* an XML file returned whose cells do not cover the grid and of which one
\* lies outside it
C10_Witness ==
    /\ fmt = "jpz" /\ Returned
    /\ Len(jpz.st.raw_cells) < P.width * P.height
    /\ \E i \in 1..Len(jpz.st.raw_cells) : jpz.st.raw_cells[i].x > P.width

\* a JSON file returned: its array has height rows of width values
C10_JsonCase ==
    /\ fmt = "ipuz" /\ Returned
    /\ P.width * P.height > 1
    /\ Len(input.file.puzzle[1]) = P.height

\* the answer a JSON solution value gives: its string, or the string under
\* "value"; none for null, a block, an empty string and any other value
JsonAnswer(val) ==
    IF val.t = "String" /\ val.s # S_HASH /\ val.s # <<>> THEN Some(val.s)
    ELSE IF val.t = "Object" /\ "value" \in DOMAIN val.fields
            /\ val.fields["value"].t = "String" /\ val.fields["value"].s # <<>>
    THEN Some(val.fields["value"].s)
    ELSE None

\* the <cell> elements read for the 0-based position (row, col)
RawCellsAt(row, col) ==
    {i \in 1..Len(jpz.st.raw_cells) :
       jpz.st.raw_cells[i].x = col + 1 /\ jpz.st.raw_cells[i].y = row + 1}

\* the greatest element of a nonempty set of numbers
Last(S) == CHOOSE i \in S : \A j \in S : j <= i

\* the true answer of the source for the cell at 0-based (row, col) of the
\* returned grid, None when the source gives none
SourceAnswer(row, col) ==
    IF fmt = "puz"
    THEN LET idx == row * P.width + col
             sol == At(input, HEADER_SIZE + idx)
             grbs == puz.extensions[1].grbs
             entry == IF idx < Len(grbs) /\ At(grbs, idx) > 0
                      THEN MapGet(puz.extensions[1].rtbl, At(grbs, idx) - 1)
                      ELSE None
         IN  IF entry # None THEN entry
             ELSE IF sol # B_DASH /\ sol # B_COLON THEN Some(<<sol>>) ELSE None
    ELSE IF fmt = "ipuz"
    THEN (IF input.file.solution # None
             /\ row < Len(input.file.solution[1])
             /\ col < Len(input.file.solution[1][row + 1])
          THEN JsonAnswer(input.file.solution[1][row + 1][col + 1]) ELSE None)
    ELSE (IF RawCellsAt(row, col) # {}
          THEN jpz.st.raw_cells[Last(RawCellsAt(row, col))].solution ELSE None)

\* C11: in every returned Puzzle a cell whose answer in the source has more
\* than one character has the uppercased first character of the answer as
\* solution and the whole uppercased answer as rebus_solution, and a cell
\* whose answer has one character, or that has no answer, has no
\* rebus_solution.
C11_Rebus ==
    Returned =>
       \A q \in Positions(P.width, P.height) :
          LET cell == CellAt(P.grid, q[1], q[2])
              answer == SourceAnswer(q[1], q[2])
          IN  cell.kind = "Letter" =>
                 IF answer # None /\ Len(answer[1]) > 1
                 THEN /\ cell.solution = Some(to_uppercase(<<answer[1][1]>>))
                      /\ cell.rebus_solution = Some(to_uppercase(answer[1]))
                 ELSE cell.rebus_solution = None

\* the scramble tag of a binary input
ScrambledTag == At(input, OFFSET_SCRAMBLED_TAG) + 256 * At(input, OFFSET_SCRAMBLED_TAG + 1)

\* whether the source supplies a solution letter for the playable cell at
\* 0-based (row, col)
SourceLetter(row, col) ==
    IF fmt = "puz"
    THEN At(input, HEADER_SIZE + row * P.width + col) \notin {B_DOT, B_DASH, B_COLON}
    ELSE SourceAnswer(row, col) # None

\* C12: has_solution of a returned Puzzle is true exactly when the source
\* supplied a solution letter for at least one playable cell (and, for the
\* binary decoder, the scramble tag is zero); solution data without any
\* letter gives false.
C12_HasSolution ==
    Returned =>
       (P.has_solution <=>
          /\ \E q \in Positions(P.width, P.height) :
                /\ CellAt(P.grid, q[1], q[2]).kind = "Letter"
                /\ SourceLetter(q[1], q[2])
          /\ (fmt = "puz" => ScrambledTag = 0))

\* a binary buffer with the two bytes of its scramble tag set to zero
TagZeroed(data) ==
    [i \in 1..Len(data) |->
       IF i - 1 \in {OFFSET_SCRAMBLED_TAG, OFFSET_SCRAMBLED_TAG + 1} THEN 0 ELSE data[i]]

\* C13: the scramble tag of a binary buffer never decides whether it decodes:
\* the decoder ends as it ends on the same buffer with the tag zeroed; when
\* it returns a Puzzle, is_scrambled is true exactly when the tag is nonzero,
\* has_solution is false when the tag is nonzero, and everything else (grid,
\* numbering, clues, metadata) is what the zeroed buffer gives.
C13_ScrambleTag ==
    (Done /\ fmt = "puz") =>
       LET zeroed == puz_parse(TagZeroed(input))
       IN  /\ result.kind = zeroed.kind
           /\ result.kind = "Ok" =>
                 /\ result.value.is_scrambled = (ScrambledTag # 0)
                 /\ ScrambledTag # 0 => ~result.value.has_solution
                 /\ [result.value EXCEPT !.is_scrambled = FALSE, !.has_solution = TRUE]
                      = [zeroed.value EXCEPT !.is_scrambled = FALSE, !.has_solution = TRUE]
           /\ result.kind # "Ok" => result = zeroed

\* a puzzle returned from a buffer with a nonzero scramble tag, whose cells
\* carry solution letters, rebus entries and numbers, and which has clues
C13_Witness ==
    /\ Returned /\ fmt = "puz" /\ ScrambledTag # 0
    /\ P.is_scrambled /\ ~P.has_solution
    /\ \E q \in Positions(P.width, P.height) :
          /\ CellAt(P.grid, q[1], q[2]).solution # None
          /\ CellAt(P.grid, q[1], q[2]).rebus_solution # None
          /\ CellAt(P.grid, q[1], q[2]).number # None
    /\ P.clues.across # <<>>

\* whether the kind list of a deserialized JSON input has an entry that
\* starts with "http://ipuz.org/crossword"
CrosswordKind ==
    \E i \in 1..Len(input.file.kind) :
       /\ Len(input.file.kind[i]) >= Len(CROSSWORD_PREFIX)
       /\ SubSeq(input.file.kind[i], 1, Len(CROSSWORD_PREFIX)) = CROSSWORD_PREFIX

\* C14: the JSON decoder fails with the Json variant on input that does not
\* deserialize, and with InvalidData, whatever the dimensions, the puzzle
\* array and the clues are, on input that deserializes and whose kind list
\* (empty when absent) has no entry starting with the crossword prefix.
C14_KindFirst ==
    (Done /\ fmt = "ipuz") =>
       /\ ~input.valid_json => result = Err(JsonError)
       /\ (input.valid_json /\ ~CrosswordKind) =>
             /\ result.kind = "Err"
             /\ result.error.variant = "InvalidData"
             /\ result.error.msg = <<"ipuz file is not a crossword puzzle (missing crossword kind)">>

\* a file of another kind whose declared width is zero and whose puzzle
\* array and clues are missing too, rejected for its kind
C14_Witness ==
    /\ Done /\ fmt = "ipuz" /\ input.valid_json /\ ~CrosswordKind
    /\ input.file.kind # <<>>
    /\ input.file.dimensions # None /\ input.file.dimensions[1].width = 0
    /\ input.file.puzzle = None /\ input.file.clues = None
    /\ result.kind = "Err" /\ result.error.variant = "InvalidData"

\* the declared dimensions and the puzzle array of a deserialized JSON input
DeclaredWidth == input.file.dimensions[1].width

DeclaredHeight == input.file.dimensions[1].height

PuzzleArray == input.file.puzzle[1]

\* the 0-based indexes of the rows of the puzzle array whose length is not
\* the declared width
OffendingRows ==
    {r \in 0..(Len(PuzzleArray) - 1) : Len(PuzzleArray[r + 1]) # DeclaredWidth}

\* C15: on JSON input that deserializes with dimensions, a puzzle array whose
\* row count is not the declared height, or one of whose rows has not the
\* declared width, and a declared width or height of 0, each make the decode
\* fail; when the kind is a crossword kind the failure for a zero dimension
\* is InvalidDimensions with the two declared values, and the failure for a
\* row of the wrong length in an array of the right row count names the
\* lowest index of such a row, the length of that row and the width.
C15_Dimensions ==
    (Done /\ fmt = "ipuz" /\ input.valid_json /\ input.file.dimensions # None) =>
       /\ (DeclaredWidth = 0 \/ DeclaredHeight = 0) =>
             /\ result.kind = "Err"
             /\ CrosswordKind =>
                   result = Err(InvalidDimensions(DeclaredWidth, DeclaredHeight))
       /\ (input.file.puzzle # None
             /\ (Len(PuzzleArray) # DeclaredHeight \/ OffendingRows # {})) =>
             /\ result.kind = "Err"
             /\ (CrosswordKind /\ DeclaredWidth # 0 /\ DeclaredHeight # 0
                   /\ Len(PuzzleArray) # DeclaredHeight) =>
                   result = Err(InvalidData(<<"puzzle grid has {} rows, expected {}",
                                              Len(PuzzleArray), DeclaredHeight>>))
             /\ (CrosswordKind /\ DeclaredWidth # 0 /\ DeclaredHeight # 0
                   /\ Len(PuzzleArray) = DeclaredHeight) =>
                   \E r \in OffendingRows :
                      /\ \A o \in OffendingRows : r <= o
                      /\ result = Err(InvalidData(<<"row {} has {} cells, expected {}",
                                                    r, Len(PuzzleArray[r + 1]), DeclaredWidth>>))

\* a crossword file of the right row count rejected for a row of the wrong
\* length, with a later row of another wrong length
C15_Witness ==
    /\ Done /\ fmt = "ipuz" /\ input.valid_json /\ CrosswordKind
    /\ input.file.dimensions # None /\ input.file.puzzle # None
    /\ DeclaredWidth # 0 /\ Len(PuzzleArray) = DeclaredHeight
    /\ \E r \in OffendingRows, o \in OffendingRows :
          /\ r < o /\ Len(PuzzleArray[r + 1]) # Len(PuzzleArray[o + 1])
          /\ result.kind = "Err" /\ result.error.variant = "InvalidData"
          /\ result.error.msg[2] = r

\* whether an entry of a JSON clue list has the shape [number, text, ...]
ClueShape(val) ==
    val.t = "Array" /\ Len(val.items) >= 2 /\ val.items[1].t = "Number"

\* the entries of a clue list that have the shape, in their order
RECURSIVE ShapedEntries(_)
ShapedEntries(list) ==
    IF list = <<>> THEN <<>>
    ELSE IF ClueShape(Head(list)) THEN <<Head(list)>> \o ShapedEntries(Tail(list))
    ELSE ShapedEntries(Tail(list))

\* a JSON input without the entries of its clue lists that lack the shape
WithoutMalformedClues(in) ==
    [in EXCEPT !.file.clues =
       Some([across |-> ShapedEntries(in.file.clues[1].across),
             down |-> ShapedEntries(in.file.clues[1].down)])]

\* C16: the entries of a JSON clue list that have not the shape
\* [number, text, ...] (no array, an array of fewer than two elements, an
\* array whose first element is not a number) change nothing: the decode
\* ends as it ends on the same file without these entries, so it does not
\* fail because of them and the other entries give their clues in order.
C16_MalformedCluesSkipped ==
    (Done /\ fmt = "ipuz" /\ input.valid_json /\ input.file.clues # None) =>
       result = ipuz_parse(WithoutMalformedClues(input))

\* the elements of a sequence
Range(seq) == {seq[i] : i \in 1..Len(seq)}

\* whether an entry of a JSON clue list is an array of two elements or more
\* whose first element is an unsigned integer
WellFormedClue(val) ==
    val.t = "Array" /\ Len(val.items) >= 2
    /\ val.items[1].t = "Number" /\ val.items[1].u64 # None

\* the entries of a clue list that are well formed, in their order
RECURSIVE WellFormedEntries(_)
WellFormedEntries(list) ==
    IF list = <<>> THEN <<>>
    ELSE IF WellFormedClue(Head(list))
    THEN <<Head(list)>> \o WellFormedEntries(Tail(list))
    ELSE WellFormedEntries(Tail(list))

\* the 0-based positions of the cells of the built grid whose number is the
\* clue number of a well-formed entry (a cell's number is below 2^32)
CellsOfClue(val) ==
    {q \in Positions(ipuz.w, ipuz.h) :
       /\ val.items[1].u64[1].hi = 0
       /\ CellAt(ipuz.grid, q[1], q[2]).number = Some(val.items[1].u64[1].lo)}

\* the first position of a nonempty set of positions in row-major order
FirstRowMajor(S) ==
    CHOOSE q \in S : \A o \in S : q[1] < o[1] \/ (q[1] = o[1] /\ q[2] <= o[2])

\* the clues of the file are all arrays whose first element, if there are two
\* elements or more, is an unsigned integer, and the grid has been built
CluesReached ==
    /\ Done /\ fmt = "ipuz" /\ input.valid_json
    /\ ipuz.grid # <<>> /\ input.file.clues # None
    /\ \A val \in Range(input.file.clues[1].across) \cup Range(input.file.clues[1].down) :
          (val.t = "Array" /\ Len(val.items) >= 2) => WellFormedClue(val)

\* the clues of one list are those of its well-formed entries, each at the
\* first cell in row-major order that carries its number
CluesAtFirstCell(clues, list) ==
    LET entries == WellFormedEntries(list)
    IN  /\ Len(clues) = Len(entries)
        /\ \A i \in 1..Len(clues) :
              /\ CellsOfClue(entries[i]) # {}
              /\ <<clues[i].row, clues[i].col>> = FirstRowMajor(CellsOfClue(entries[i]))

\* C17: when the JSON decoder reaches the clues, a well-formed entry whose
\* number no cell of the built grid carries (0 included) makes the decode
\* fail with InvalidData; otherwise the decode returns a Puzzle in which each
\* well-formed entry has its clue at the first cell, in row-major order,
\* that carries its number.
C17_CluePosition ==
    CluesReached =>
       IF \E val \in Range(WellFormedEntries(input.file.clues[1].across))
                       \cup Range(WellFormedEntries(input.file.clues[1].down)) :
             CellsOfClue(val) = {}
       THEN result.kind = "Err" /\ result.error.variant = "InvalidData"
       ELSE /\ result.kind = "Ok"
            /\ CluesAtFirstCell(P.clues.across, input.file.clues[1].across)
            /\ CluesAtFirstCell(P.clues.down, input.file.clues[1].down)

\* whether a buffer given to the Archive/XML decoder begins with PK\x03\x04
BeginsWithMagic ==
    Len(input.head) >= 4 /\ SubSeq(input.head, 1, 4) = <<80, 75, 3, 4>>

\* whether the first file of the archive of the input can be read entirely
FirstFileExtracts ==
    /\ input.archive # None /\ input.archive[1].opens
    /\ input.archive[1].entries # <<>>
    /\ input.archive[1].entries[1].readable
    /\ input.archive[1].entries[1].inflates

\* C18: on a buffer that begins with PK\x03\x04 and whose first archive file
\* can be read, the Archive/XML decoder ends as parse_xml ends on the content
\* of that file, that is, as it ends on the bare XML; a buffer that does not
\* begin with these four bytes is read as XML itself, whether or not a zip
\* reader would find an archive in it.
C18_ArchiveSameAsXml ==
    (Done /\ fmt = "jpz") =>
       /\ (BeginsWithMagic /\ FirstFileExtracts) =>
             result = parse_xml(input.archive[1].entries[1].events, jpz.overflow_checks)
       /\ ~BeginsWithMagic => result = parse_xml(input.events, jpz.overflow_checks)

\* a puzzle with a word start and clues returned from inside an archive
C18_Witness ==
    /\ Returned /\ fmt = "jpz" /\ BeginsWithMagic /\ FirstFileExtracts
    /\ P.width * P.height >= 4
    /\ P.clues.across # <<>> /\ P.clues.down # <<>>

\* a buffer in which a zip reader would find an archive, read as XML because
\* it does not begin with the magic bytes
C18_NotAnArchive ==
    /\ Returned /\ fmt = "jpz" /\ ~BeginsWithMagic /\ FirstFileExtracts
    /\ input.head # <<>> /\ P.width = 1

\* the decoder failed in the archive layer: the buffer begins with the magic
\* bytes and the first file of its archive cannot be read
ArchiveLayerFailure ==
    Failed /\ fmt = "jpz" /\ BeginsWithMagic /\ ~FirstFileExtracts

\* the variant the decoder reports for malformed markup
MalformedMarkupVariant == parse_xml(<<ErrorEvent>>, FALSE).error.variant

\* C19: a failure of the archive layer of the Archive/XML decoder (container
\* that does not open, empty archive, first file that cannot be opened or
\* decompressed) has a variant different from the one reported for
\* malformed markup, so the variant alone tells the two layers apart.
C19_ArchiveVariantDistinct ==
    ArchiveLayerFailure => result.error.variant # MalformedMarkupVariant

\* the reader of the Archive/XML decoder reached the end of the XML
ReachedEof ==
    /\ Done /\ fmt = "jpz" /\ jpz.pos > Len(jpz.xml)
    /\ BeginsWithMagic => FirstFileExtracts

\* whether a <cell> read from the XML lies in the declared grid
InGrid(cell) ==
    /\ cell.x >= 1 /\ cell.x <= jpz.st.grid_width
    /\ cell.y >= 1 /\ cell.y <= jpz.st.grid_height

\* C20: the <cell> elements whose x is outside 1..width or whose y is outside
\* 1..height (0 standing for a missing or unparsable coordinate) change
\* nothing: the decoder ends as it ends without them, with the same grid and
\* the same has_solution; and a position at which <cell> elements were read
\* holds the last of them, a block or a letter with its number and circle.
C20_OutOfRangeCellsDropped ==
    ReachedEof =>
       /\ result = finish([jpz.st EXCEPT !.raw_cells = SelectSeq(@, InGrid)])
       /\ Returned =>
             \A q \in Positions(P.width, P.height) :
                RawCellsAt(q[1], q[2]) # {} =>
                   LET last == jpz.st.raw_cells[Last(RawCellsAt(q[1], q[2]))]
                       cell == CellAt(P.grid, q[1], q[2])
                   IN  /\ cell.kind = (IF last.is_block THEN "Black" ELSE "Letter")
                       /\ ~last.is_block =>
                             /\ cell.number = last.number
                             /\ cell.is_circled = last.is_circled

\* the value of attribute key of an element, the last one given, "" when absent
AttrOf(e, key) ==
    LET given == {i \in 1..Len(e.attrs) : e.attrs[i][1] = key}
    IN  IF given = {} THEN <<>> ELSE e.attrs[Last(given)][2]

\* whether a text is one or more decimal digits
IsDecimal(s) == s # <<>> /\ \A i \in 1..Len(s) : s[i] \in 48..57

RECURSIVE DecimalValue(_)
\* the number a text of decimal digits writes
DecimalValue(s) ==
    IF s = <<>> THEN 0 ELSE 10 * DecimalValue(SubSeq(s, 1, Len(s) - 1)) + (s[Len(s)] - 48)

\* the positions of the dashes of a text
Dashes(s) == {i \in 1..Len(s) : s[i] = 45}

\* whether a text is start-end, two decimal numbers with start <= end
WellFormedRange(s) ==
    /\ Cardinality(Dashes(s)) = 1
    /\ LET d == CHOOSE i \in Dashes(s) : TRUE
           start == SubSeq(s, 1, d - 1)
           end == SubSeq(s, d + 1, Len(s))
       IN  /\ IsDecimal(start) /\ IsDecimal(end)
           /\ DecimalValue(start) <= DecimalValue(end)

\* whether an event opens a <word> element
IsWord(e) == e.type \in {"Start", "Empty"} /\ e.name = "word"

\* a <word> with a dash in x or y that is not a well-formed span: the
\* attribute read as the range (x when it has a dash, else y) is not a
\* well-formed range, or the attribute of the fixed axis is no integer
MalformedWord(e) ==
    LET x == AttrOf(e, "x")
        y == AttrOf(e, "y")
    IN  /\ IsWord(e)
        /\ Dashes(x) # {} \/ Dashes(y) # {}
        /\ IF Dashes(x) # {}
           THEN ~(WellFormedRange(x) /\ IsDecimal(y))
           ELSE ~(WellFormedRange(y) /\ IsDecimal(x))

\* a <word> with no dash in x and none in y
DashlessWord(e) ==
    IsWord(e) /\ Dashes(AttrOf(e, "x")) = {} /\ Dashes(AttrOf(e, "y")) = {}

\* the decoder ended after it obtained the XML
XmlRead == Done /\ fmt = "jpz" /\ (BeginsWithMagic => FirstFileExtracts)

\* C21: when the XML holds a <word> element with a dash in x or y that is
\* not a well-formed span, the Archive/XML decoder fails with the Xml
\* variant; and the decoder never stops at a <word> element that has no dash
\* in x and none in y.
C21_MalformedWordFails ==
    XmlRead =>
       /\ (\E i \in 1..Len(jpz.xml) : MalformedWord(jpz.xml[i])) =>
             result.kind = "Err" /\ result.error.variant = "Xml"
       /\ (result.kind # "Ok" /\ jpz.pos <= Len(jpz.xml)) =>
             ~DashlessWord(jpz.xml[jpz.pos])

\* the decoder is about to handle the End event of a <clue> that is open
ClosingClue ==
    /\ fmt = "jpz" /\ pc = "read" /\ jpz.pos <= Len(jpz.xml)
    /\ jpz.xml[jpz.pos].type = "End" /\ jpz.xml[jpz.pos].name = "clue"
    /\ jpz.st.in_clue

\* the clue being closed: the word it names, its number, its text
ClosedClue ==
    [word_id |-> jpz.st.current_clue_word_id,
     number |-> jpz.st.current_clue_number,
     text |-> strip_html_tags(jpz.st.current_clue_text)]

\* the clues read for one direction that name a word of the word-span
\* table, in their order
RECURSIVE KnownWordClues(_, _)
KnownWordClues(raw_clues, ids) ==
    IF raw_clues = <<>> THEN <<>>
    ELSE IF Head(raw_clues).word_id \in ids
    THEN <<Head(raw_clues)>> \o KnownWordClues(Tail(raw_clues), ids)
    ELSE KnownWordClues(Tail(raw_clues), ids)

\* the identifiers of the word-span table
WordIds == {jpz.st.word_defs[i].id : i \in 1..Len(jpz.st.word_defs)}

\* the number and text of the clues of a list, in order
NumberAndText(clues) == [i \in 1..Len(clues) |-> <<clues[i].number, clues[i].text>>]

\* closing a clue while no direction is established leaves both lists as
\* they are
NoDirectionClueDropped ==
    (ClosingClue /\ jpz.st.current_clue_direction = None) =>
       /\ jpz'.st.across_clues = jpz.st.across_clues
       /\ jpz'.st.down_clues = jpz.st.down_clues

\* at the end of the XML the decode succeeds, and each list holds the clues
\* read for its direction that name a known word, in their order
UnknownWordClueDropped ==
    (fmt = "jpz" /\ pc = "read" /\ pc' = "done" /\ jpz.pos > Len(jpz.xml)
       /\ jpz.st.grid_width # 0 /\ jpz.st.grid_height # 0) =>
       /\ result'.kind = "Ok"
       /\ NumberAndText(result'.value.clues.across)
            = NumberAndText(KnownWordClues(jpz.st.across_clues, WordIds))
       /\ NumberAndText(result'.value.clues.down)
            = NumberAndText(KnownWordClues(jpz.st.down_clues, WordIds))

\* closing a clue under a direction appends it to the list of that
\* direction and leaves the other list as it is
ClueFiled(keeps) ==
    (ClosingClue /\ jpz.st.current_clue_direction # None /\ keeps) =>
       IF jpz.st.current_clue_direction = Some(TRUE)
       THEN /\ jpz'.st.across_clues = Append(jpz.st.across_clues, ClosedClue)
            /\ jpz'.st.down_clues = jpz.st.down_clues
       ELSE /\ jpz'.st.down_clues = Append(jpz.st.down_clues, ClosedClue)
            /\ jpz'.st.across_clues = jpz.st.across_clues

\* C22, as stated: a clue closed with no direction is dropped, a clue naming
\* an unknown word is dropped, the decode succeeds, and every other clue
\* that is closed is kept, in document order, in the list of its direction.
C22_EveryOtherClueKept ==
    [][NoDirectionClueDropped /\ UnknownWordClueDropped /\ ClueFiled(TRUE)]_vars

\* C22, amended: as above, but the clues kept are those whose number
\* attribute is a positive integer; a clue closed with a number that is
\* missing, zero or unparsable is dropped as well.
C22_NumberedCluesKept ==
    [][/\ NoDirectionClueDropped /\ UnknownWordClueDropped
       /\ ClueFiled(jpz.st.current_clue_number > 0)
       /\ (ClosingClue /\ jpz.st.current_clue_number = 0) =>
             /\ jpz'.st.across_clues = jpz.st.across_clues
             /\ jpz'.st.down_clues = jpz.st.down_clues]_vars

\* a Puzzle returned from a document with a clue closed under no direction
\* and a clue naming an unknown word, whose other clue was kept
C22_Witness ==
    /\ Returned /\ fmt = "jpz"
    /\ Len(jpz.st.across_clues) + Len(jpz.st.down_clues) = 1
    /\ Len(P.clues.across) + Len(P.clues.down) = 0
    /\ Cardinality({i \in 1..Len(jpz.xml) : jpz.xml[i].type = "End" /\ jpz.xml[i].name = "clue"}) = 2
    /\ \A i \in 1..Len(jpz.xml) :
          (jpz.xml[i].type = "Start" /\ jpz.xml[i].name = "clue") =>
             AttrOf(jpz.xml[i], "number") \in {<<49>>, <<50>>}

\* ASCII letters folded to lower case
FoldLetter(c) == IF c \in 65..90 THEN c + 32 ELSE c

\* whether a hint spells a token, whatever the case of its letters
Spells(hint, token) ==
    /\ Len(hint) = Len(token)
    /\ \A i \in 1..Len(hint) : FoldLetter(hint[i]) = token[i]

Recognised(hint) == \E token \in {S_PUZ, S_IPUZ, S_JPZ, S_XML} : Spells(hint, token)

\* a call of parse(data, extension) that has returned
Dispatched == call # NoCall /\ Done

\* C23: a call whose hint spells none of puz, ipuz, jpz and xml fails with
\* UnsupportedFormat carrying exactly the hint the caller passed, in its
\* original letter case, and enters no decoder.
C23_UnsupportedVerbatim ==
    (Dispatched /\ ~Recognised(call.extension)) =>
       /\ result = Err(UnsupportedFormat(call.extension))
       /\ fmt = "none"

\* what the decoder a recognised hint names returns on the buffer
RoutedResult ==
    IF Spells(call.extension, S_PUZ) THEN puz_parse(call.data.bytes)
    ELSE IF Spells(call.extension, S_IPUZ) THEN ipuz_parse(call.data.json)
    ELSE LET x == xml_data(call.data.xml)
         IN  IF x.kind = "Ok" THEN parse_xml(x.value, jpz.overflow_checks) ELSE x

\* C24: a call whose hint spells puz, ipuz, jpz or xml in any letter case
\* returns what the binary, the JSON, and for both jpz and xml the
\* Archive/XML decoder returns on the same buffer, so hints that differ in
\* case only, and jpz and xml, give the same result; the result is never
\* UnsupportedFormat.
C24_CaseInsensitiveRouting ==
    (Dispatched /\ Recognised(call.extension)) =>
       /\ result = RoutedResult
       /\ ~(result.kind = "Err" /\ result.error.variant = "UnsupportedFormat")

\* "XML" has routed an XML document to the Archive/XML decoder, which
\* returned a puzzle
C24_Witness ==
    /\ Dispatched /\ call.extension = <<88, 77, 76>> /\ call.data = XmlFile
    /\ fmt = "jpz" /\ Returned

\* the walk over the extension sections is at a section header
AtSection == fmt = "puz" /\ pc = "sections"

\* the bytes the walk reads, and the offset of the section it is at
WalkData == puz.walk[1].data

WalkPos == puz.walk[1].pos

\* the section at the walk's offset, read by its layout: a 4-byte name, a
\* 2-byte little-endian length, a 2-byte checksum, the payload, a terminator
HeaderFits == WalkPos + 8 <= Len(WalkData)

SectionName == Slice(WalkData, WalkPos, WalkPos + 4)

PayloadEnd == WalkPos + 8 + At(WalkData, WalkPos + 4) + 256 * At(WalkData, WalkPos + 5)

Overruns == PayloadEnd > Len(WalkData)

Payload == Slice(WalkData, WalkPos + 8, PayloadEnd)

KnownNames == {EXT_GRBS, EXT_RTBL, EXT_GEXT, EXT_LTIM}

\* one turn of the walk, by the case of the section it is at
SectionTurn ==
    AtSection =>
       /\ (HeaderFits /\ ~Overruns /\ SectionName \notin KnownNames) =>
             /\ pc' = "sections"
             /\ puz'.walk[1].pos = PayloadEnd + 1
             /\ puz'.extensions = puz.extensions
       /\ (HeaderFits /\ ~Overruns /\ SectionName = EXT_GRBS) =>
             /\ pc' = "sections"
             /\ puz'.walk[1].pos = PayloadEnd + 1
             /\ puz'.extensions[1] = [puz.extensions[1] EXCEPT !.grbs = Payload]
       /\ (HeaderFits /\ Overruns) =>
             /\ pc' = "grid"
             /\ puz'.extensions = puz.extensions
       /\ pc' = "sections" => puz'.walk[1].pos > WalkPos

\* C25: in the walk over the extension sections a section of an unknown name
\* is skipped and the walk goes on at the next section; the first section
\* whose length overruns the buffer ends the walk with the sections applied
\* so far; each turn moves the walk forward, and every decode that reaches
\* the sections returns a Puzzle.
C25_SectionsBestEffort ==
    /\ [][SectionTurn]_vars
    /\ AtSection ~> (Returned /\ puz.walk # None
                    /\ puz.extensions = Some(parse_extensions(WalkData)))

\* a Puzzle returned from a buffer whose sections are one of an unknown
\* name, a rebus grid, and one that overruns: the rebus grid was applied
C25_Witness ==
    /\ Returned /\ fmt = "puz" /\ puz.walk # None
    /\ WalkData = section(<<65, 66, 67, 68>>, <<1>>) \o section(EXT_GRBS, <<1, 0>>)
                    \o EXT_GEXT \o <<255, 255, 0, 0>> \o <<128, 128>>
    /\ HeaderFits /\ Overruns
    /\ puz.extensions[1].grbs = <<1, 0>> /\ puz.extensions[1].gext = <<>>

\* the entries of a rebus table string: the pieces its semicolons end, each
\* without the white space around it
TableEntries(text) ==
    LET pieces == Split(text, B_SEMICOLON)
    IN  [i \in 1..Len(pieces) |-> Trim(pieces[i])]

\* the key of an entry "key:VALUE", None when it has no colon or its key is
\* no number of 0..255
EntryKey(entry) ==
    LET colon == IndexOf(entry, B_COLON, 1)
    IN  IF colon = 0 THEN None
        ELSE parse_unsigned(Trim(SubSeq(entry, 1, colon - 1)), U8_MAX)

\* the VALUE of an entry "key:VALUE": what follows its first colon
EntryValue(entry) == SubSeq(entry, IndexOf(entry, B_COLON, 1) + 1, Len(entry))

\* the table a rebus table string stands for: each key that parses, mapped
\* to the VALUE of the last entry with that key
TableOf(text) ==
    LET entries == TableEntries(text)
        with(k) == {i \in 1..Len(entries) : EntryKey(entries[i]) = Some(k)}
    IN  [k \in {j \in 0..U8_MAX : with(j) # {}} |->
           EntryValue(entries[CHOOSE i \in with(k) : \A j \in with(k) : j <= i])]

\* the rebus solution every non-black cell of the returned grid has, from the
\* rebus grid and the rebus table of the extensions
RebusLookedUp ==
    (Returned /\ fmt = "puz") =>
       \A q \in Positions(P.width, P.height) :
          LET cell == CellAt(P.grid, q[1], q[2])
              i == q[1] * P.width + q[2]
              grbs == puz.extensions[1].grbs
              rtbl == puz.extensions[1].rtbl
              N == IF i < Len(grbs) THEN At(grbs, i) ELSE 0
          IN  cell.kind = "Letter" =>
                 cell.rebus_solution =
                    IF N > 0 /\ (N - 1) \in DOMAIN rtbl THEN Some(rtbl[N - 1]) ELSE None

\* the table the walk holds after the turn at a whole RTBL section
RebusTableRead ==
    (AtSection /\ HeaderFits /\ ~Overruns /\ SectionName = EXT_RTBL) =>
       puz'.extensions[1].rtbl = TableOf(decode_string(Payload))

\* C26: a non-black cell at flat index i has the rebus solution RTBL[N-1]
\* when the rebus grid has the byte N > 0 at i and the table has the key N-1,
\* and none when N is 0, when the rebus grid is absent or shorter than i+1,
\* or when the table has no such key; the table read from a string of
\* "key:VALUE;" entries maps each key that parses to its VALUE, the last
\* entry of a repeated key winning.
C26_RebusLookup == []RebusLookedUp /\ [][RebusTableRead]_vars

\* a Puzzle returned from "0:AB;0:CD;" and the rebus grid 1 1 2 0: the cells
\* marked 1 have the rebus solution CD, the cell marked 2 has none
C26_Witness ==
    /\ Returned /\ fmt = "puz" /\ P.width = 2 /\ P.height = 2
    /\ puz.extensions[1].grbs = <<1, 1, 2, 0>>
    /\ DOMAIN puz.extensions[1].rtbl = {0}
    /\ CellAt(P.grid, 0, 0).rebus_solution = Some(<<67, 68>>)
    /\ CellAt(P.grid, 1, 0).rebus_solution = None

\* how many elements of a name are open before the event at pos: the start
\* tags before it less the end tags before it
OpenAt(name, pos) ==
    Cardinality({j \in 1..(pos - 1) : jpz.xml[j].type = "Start" /\ jpz.xml[j].name = name})
      - Cardinality({j \in 1..(pos - 1) : jpz.xml[j].type = "End" /\ jpz.xml[j].name = name})

\* whether a text names a direction, and whether it names across
NamesDirection(text) ==
    contains(to_lowercase(text), S_ACROSS) \/ contains(to_lowercase(text), S_DOWN)

NamesAcross(text) == contains(to_lowercase(text), S_ACROSS)

\* the position of the last start or end tag of a clues block before pos
BlockEdge(pos) ==
    LET edges == {j \in 1..(pos - 1) : jpz.xml[j].name = "clues"
                                       /\ jpz.xml[j].type \in {"Start", "Empty", "End"}}
    IN  IF edges = {} THEN 0 ELSE CHOOSE j \in edges : \A k \in edges : k <= j

\* whether the event at pos is inside a title that was opened inside a clues
\* block and outside metadata
InHeading(pos) ==
    \E k \in 1..(pos - 1) :
       /\ jpz.xml[k].type = "Start" /\ jpz.xml[k].name = "title"
       /\ OpenAt("clues", k) > 0 /\ OpenAt("metadata", k) = 0
       /\ \A j \in (k + 1)..(pos - 1) :
             ~(jpz.xml[j].type = "End" /\ jpz.xml[j].name = "title")

\* the texts before pos of the titles of the current clues block that name a
\* direction
Headings(pos) ==
    {j \in (BlockEdge(pos) + 1)..(pos - 1) :
        /\ jpz.xml[j].type = "Text" /\ jpz.xml[j].text # None
        /\ InHeading(j) /\ NamesDirection(jpz.xml[j].text[1])}

\* the direction the document gives a clue closed at pos: that of the most
\* recent heading of its block that names one
HeadingDirection(pos) ==
    LET hs == Headings(pos)
    IN  IF hs = {} THEN None
        ELSE Some(NamesAcross(jpz.xml[CHOOSE j \in hs : \A k \in hs : k <= j].text[1]))

\* a numbered clue that is closed is filed under the direction of its heading
FiledUnderHeading ==
    (ClosingClue /\ jpz.st.current_clue_number > 0) =>
       LET d == HeadingDirection(jpz.pos)
       IN  /\ jpz'.st.across_clues = IF d = Some(TRUE)
                                     THEN Append(jpz.st.across_clues, ClosedClue)
                                     ELSE jpz.st.across_clues
           /\ jpz'.st.down_clues = IF d = Some(FALSE)
                                   THEN Append(jpz.st.down_clues, ClosedClue)
                                   ELSE jpz.st.down_clues

\* the start and the end tag of a clues block leave no direction
DirectionReset ==
    (Reading({"Start", "End"}) /\ jpz.xml[jpz.pos].name = "clues" /\ pc' = "read") =>
       jpz'.st.current_clue_direction = None

\* a text inside metadata leaves the direction as it is
MetadataKeepsDirection ==
    (Reading({"Text"}) /\ OpenAt("metadata", jpz.pos) > 0) =>
       jpz'.st.current_clue_direction = jpz.st.current_clue_direction

\* the text of a title of the clues block goes neither to the puzzle's title
\* nor to the text of a clue
HeadingTextKept ==
    (Reading({"Text"}) /\ InHeading(jpz.pos)) =>
       /\ jpz'.st.title = jpz.st.title
       /\ jpz'.st.current_clue_text = jpz.st.current_clue_text

\* C27: in a clues block a clue is filed under the direction of the most
\* recent title before it whose text contains "across" or "down" in any
\* letter case; the start and the end tag of a clues block reset the
\* direction to none; a title inside metadata never changes the direction;
\* the text of a title of the clues block becomes part neither of the
\* puzzle's title nor of a clue's text.
C27_ClueUnderHeading ==
    [][FiledUnderHeading /\ DirectionReset /\ MetadataKeepsDirection
         /\ HeadingTextKept]_vars

\* the two numbers of a well-formed range
RangeStart(s) == DecimalValue(SubSeq(s, 1, (CHOOSE i \in Dashes(s) : TRUE) - 1))

RangeEnd(s) == DecimalValue(SubSeq(s, (CHOOSE i \in Dashes(s) : TRUE) + 1, Len(s)))

\* whether a <word> gives a span a-b with 1 <= a <= b on one axis and a
\* position of 1 or more on the other
SpanWord(e) ==
    LET x == AttrOf(e, "x")
        y == AttrOf(e, "y")
    IN  /\ IsWord(e) /\ AttrOf(e, "id") # <<>>
        /\ IF Dashes(x) # {}
           THEN /\ WellFormedRange(x) /\ RangeStart(x) >= 1
                /\ IsDecimal(y) /\ DecimalValue(y) >= 1
           ELSE /\ WellFormedRange(y) /\ RangeStart(y) >= 1
                /\ IsDecimal(x) /\ DecimalValue(x) >= 1

\* the start row, start column and length of the span of such a <word>
SpanOf(e) ==
    LET x == AttrOf(e, "x")
        y == AttrOf(e, "y")
    IN  IF Dashes(x) # {}
        THEN [row |-> DecimalValue(y) - 1, col |-> RangeStart(x) - 1,
              length |-> RangeEnd(x) - RangeStart(x) + 1]
        ELSE [row |-> RangeStart(y) - 1, col |-> DecimalValue(x) - 1,
              length |-> RangeEnd(y) - RangeStart(y) + 1]

\* whether the returned clues of a list that refer to the word of an event
\* have the span given
CluesHaveSpan(raw_clues, clues, e) ==
    LET known == KnownWordClues(raw_clues, WordIds)
    IN  \A i \in 1..Len(known) :
           known[i].word_id = AttrOf(e, "id") =>
              /\ clues[i].row = SpanOf(e).row
              /\ clues[i].col = SpanOf(e).col
              /\ clues[i].length = SpanOf(e).length

\* the events of the XML that give the only <word> of their id
SingleWords ==
    {i \in 1..Len(jpz.xml) :
        /\ IsWord(jpz.xml[i])
        /\ \A j \in 1..Len(jpz.xml) :
              (IsWord(jpz.xml[j]) /\ AttrOf(jpz.xml[j], "id") = AttrOf(jpz.xml[i], "id"))
                 => j = i}

\* C28: a <word> with id, the range a-b on x and y = r (or the range on y
\* and x = c), 1 <= a <= b, gives every returned clue that refers to the id
\* the start (r-1, a-1) (or (a-1, c-1)) and the length b-a+1, whatever the
\* numbers.
C28_SpanExact ==
    (Returned /\ fmt = "jpz") =>
       \A i \in SingleWords :
          SpanWord(jpz.xml[i]) =>
             /\ CluesHaveSpan(jpz.st.across_clues, P.clues.across, jpz.xml[i])
             /\ CluesHaveSpan(jpz.st.down_clues, P.clues.down, jpz.xml[i])

\* whether an element of a name is open before the event at pos: the last
\* start or end tag of that name before pos is a start tag
IsOpen(name, pos) ==
    LET tags == {j \in 1..(pos - 1) : jpz.xml[j].name = name
                                      /\ jpz.xml[j].type \in {"Start", "End"}}
    IN  tags # {} /\ jpz.xml[CHOOSE j \in tags : \A k \in tags : k <= j].type = "Start"

\* C29: after every prefix of the events each of the flags in_metadata,
\* in_title, in_clues, in_clue_title and in_clue is set only while an
\* element of its kind is open; in particular a self-closing <metadata/>,
\* <title/> or <clue/> leaves its flag unset.
C29_FlagsFollowElements ==
    (fmt = "jpz" /\ pc = "read") =>
       /\ jpz.st.in_metadata => IsOpen("metadata", jpz.pos)
       /\ jpz.st.in_title => IsOpen("title", jpz.pos)
       /\ jpz.st.in_clues => IsOpen("clues", jpz.pos)
       /\ jpz.st.in_clue_title => IsOpen("title", jpz.pos)
       /\ jpz.st.in_clue => IsOpen("clue", jpz.pos)

====
